---------------------------- MODULE Spec2Model ----------------------------
(***************************************************************************)
(* system76/ecflash: the Flasher protocol engine (src/src/flasher.rs), the *)
(* top-level flashing flow (src/examples/flash.rs) and the EC channel they *)
(* drive, against a simulated EC with an in-memory SPI flash.              *)
(*                                                                         *)
(* Scale.  The device is 1 or 2 regions, as in the code (65536 or 131072   *)
(* bytes).  A region holds RegionBlocks blocks (64 in the code) and a      *)
(* block holds BlockWords 2-byte words (512 in the code): the loops of     *)
(* read, erase and write run over these scaled ranges.  The 24-bit SPI     *)
(* address bytes keep their real weights (65536, 256, 1) and the flash     *)
(* decodes them with the real sector size (1024) before mapping the        *)
(* sector and the offset into the scaled array.                            *)
(***************************************************************************)
EXTENDS Integers, Sequences, FiniteSets, TLC

\* ------------------------------------------------------------- bounds
\* blocks per 64 KiB region (the code: 64)
RegionBlocks == 2
\* 2-byte words per 1 KiB block (the code: 512)
BlockWords == 1
\* Flasher operations a client of the API issues in one run
MaxCalls == 2

BlockBytes == 2 * BlockWords
RegionBytes == RegionBlocks * BlockBytes

\* ---------------------------------------------------------- constants
\* the acknowledgement of a successful start
AckStarted == 51
\* real bytes per erase sector / per block of the loops
SectorBytes == 1024
\* real bytes per region
RegionSpan == 65536
\* the parameter that reports the size class, and its "128 KiB" answer
ParamSize == 229
SizeExtended == 128

Byte == 0..255

RECURSIVE BitAndN(_, _, _)
BitAndN(x, y, n) ==
    IF n = 0 THEN 0
    ELSE (x % 2) * (y % 2) + 2 * BitAndN(x \div 2, y \div 2, n - 1)

\* x & y on u8
BitAnd(x, y) == BitAndN(x, y, 8)

\* `x as u8`
AsU8(x) == x % 256

Last(s) == s[Len(s)]

RECURSIVE Cat(_)
\* concatenation of a sequence of sequences
Cat(ss) == IF ss = <<>> THEN <<>> ELSE Head(ss) \o Cat(Tail(ss))

VARIABLES
    \* --- the simulated EC and its SPI flash
    flash,      \* the backing array, 0 .. devRegions*RegionBytes - 1
    chip,       \* the flash's latches: wel, busy, aai, pointers, transaction
    ec,         \* the EC: follow mode, command parser, output buffer
    \* --- Flasher
    size,       \* Flasher.size, in (scaled) bytes
    op,         \* the Flasher operation in progress, "none" between calls
    sector,     \* its `for sector in 0..size/65536` counter
    ip,         \* position in the current sector's transfers
    buf,        \* read's output vector
    data,       \* the image (main's `data`, write's `buf`)
    ret,        \* the last operation's result: "none", "ok", "err"
    retVal,     \* the byte an Ok(u8) carries (start)
    progress,   \* the values the progress callback was given, this operation
    \* --- the caller
    pc,         \* position of examples/flash.rs main, or "api" for a free client
    success,    \* main's `success`
    report,     \* main's last diagnostic line
    stdout,     \* main's println! lines: <<offset, actual, expected>>
    shutdown,   \* main ran `shutdown`
    \* --- observation
    trace,      \* the operations that returned: <<[op, res], ...>>
    cmdLog,     \* classes of bytes written to the command port, runs of flash
                \* traffic collapsed
    sentSpi,    \* SPI command codes written
    lastFollow, \* the last follow-mode command written: "none", "enter", "exit"
    spiLog,     \* the SPI commands other than RDSR sent by the operation
                \* last to send one, each with its data bytes
    mon,        \* what the status reads since the last of them have shown
    flash0,     \* the flash when the run began
    image,      \* the firmware file as main read it
    blankAtWrite \* the flash was all 0xFF when write was last called

envVars == <<flash, chip, ec>>
flasherVars == <<size, op, sector, ip, buf, data, ret, retVal, progress>>
mainVars == <<pc, success, report, stdout, shutdown>>
obsVars == <<trace, cmdLog, sentSpi, lastFollow, spiLog, mon, flash0, image,
            blankAtWrite>>
coreVars == <<flash, chip, ec, size, op, sector, ip, buf, data, ret, retVal,
              progress, pc, success, report, stdout, shutdown, trace, cmdLog,
              sentSpi, lastFollow, spiLog, mon, flash0, image, blankAtWrite>>

VARIABLES
    \* --- a file-backed binding (src/src/file.rs)
    file,       \* EcFile.0, the captured image
    queries     \* the queries answered so far: <<[q, v], ...>>

fileVars == <<file, queries>>

VARIABLES
    \* --- the reporting driver on a live EC (src/src/main.rs)
    rpc,        \* the value being validated, or "exit0" / "exit1"
    attempt,    \* validate's _attempt_i
    pending,    \* validate's `a` while `b` is being queried, else <<>>
    calls,      \* invocations of the query by the validate in progress
    disagreements, \* its "Attempt i: a != b" lines
    lines,      \* the lines printed to stdout: <<[label, v], ...>>
    validated,  \* the validate calls that returned: <<[q, some, a, b, ...], ...>>
    lastCall    \* the last query invoked: its outcome on the channel

reportVars == <<rpc, attempt, pending, calls, disagreements, lines, validated,
                lastCall>>

VARIABLES
    \* --- the in-system programmer (src/examples/isp.rs)
    spiFlash,   \* the SPI flash array behind the port
    spiChip,    \* its latches, and the port's chip select
    busData,    \* SpiBus.data
    bus,        \* the accesses made to the port bus by the last operation
    ipc,        \* position of isp / isp_inner, or "rom" for a free client
    fwFile,     \* the firmware file as stored
    firmware,   \* isp's `firmware`
    rom,        \* isp_inner's `rom`
    ispRes,     \* the result of isp_inner
    romCall,    \* the last SpiRom operation called, and its result
    port,       \* the Smfi port isp_inner drives, and how its transport fares
    pmc,        \* commands and reads of isp on the PMC channels, in order
    ispErr      \* what the error of isp_inner carries

ispVars == <<spiFlash, spiChip, busData, bus, ipc, fwFile, firmware, rom, ispRes,
             romCall, port, pmc, ispErr>>

VARIABLES
    \* --- a client of the EC channel (src/src/flash.rs), port by port
    sio,        \* the Super-I/O chip: its ID bytes at registers 0x20, 0x21
    chan,       \* the EcFlash the client holds: <<>> or <<[primary, ...]>>
    cop,        \* the channel operation in progress: [name, a, b, buf]
    cip,        \* position in its transfers
    cph,        \* position in the transfer: "w1", "io", "w2", "flush"
    tmo,        \* the counter of the wait (or flush) in progress
    polls,      \* status polls made by the wait in progress
    sawReady,   \* one of them showed the condition waited for
    lastPoll,   \* the status byte the last poll read, <<>> before any
    clog,       \* the operation's accesses to ports other than status polls
    cres,       \* the last operation's result
    cstr,       \* get_str's `string`
    cbuf,       \* fcommand's `buf`
    ccalls      \* operations called

chanVars == <<sio, chan, cop, cip, cph, tmo, polls, sawReady, lastPoll, clog,
              cres, cstr, cbuf, ccalls>>

\* the state of the other programs of the repository
toolVars == <<fileVars, reportVars, ispVars, chanVars>>

vars == <<coreVars, toolVars>>

\* ------------------------------------------------- EC command vocabulary
EcEnterFollow == 1
EcSpiCmd == 2
EcSpiWrite == 3
EcSpiRead == 4
EcExitFollow == 5
EcStart == 220
EcStop1 == 149
EcStop2 == 252
EcGetParam == 128

\* SPI command codes
SpiRdsr == 5
SpiWren == 6
SpiWrdi == 4
SpiFastRead == 11
SpiAai == 173
SpiErase1K == 215

\* ------------------------------------------- the simulated SPI flash
\* The flash array is a sequence: byte address i is flash[i + 1].
NoIndex == 0 - 1

InFlash(fl, i) == i >= 0 /\ i < Len(fl)

AllFF(s) == \A i \in 1..Len(s) : s[i] = 255

\* The place in the scaled array of the 24-bit byte address a2:a1:a0.  The
\* real address selects a 64 KiB region, a 1 KiB sector in it and an offset
\* in the sector; sectors beyond the scaled region do not exist.
ModelIndex(a2, a1, a0) ==
    LET addr == a2 * RegionSpan + a1 * 256 + a0
        region == addr \div RegionSpan
        sec == (addr % RegionSpan) \div SectorBytes
        off == addr % SectorBytes
    IN  IF sec < RegionBlocks
        THEN region * RegionBytes + sec * BlockBytes
             + (off * BlockBytes) \div SectorBytes
        ELSE NoIndex

\* 0xD7: every byte of the 1 KiB sector holding index i becomes 0xFF
EraseSectorAt(fl, i) ==
    [j \in 1..Len(fl) |->
        IF (j - 1) \div BlockBytes = i \div BlockBytes THEN 255 ELSE fl[j]]

\* programming clears bits: the cell becomes old & new
ProgramByte(fl, i, v) ==
    IF InFlash(fl, i) THEN [fl EXCEPT ![i + 1] = BitAnd(@, v)] ELSE fl

\* the status register: BUSY is bit 0, WEL bit 1, AAI bit 6
Status(ch) ==
    (IF ch.busy THEN 1 ELSE 0) + (IF ch.wel THEN 2 ELSE 0)
    + (IF ch.aai THEN 64 ELSE 0)

\* bytes the open command still takes
ArgsWanted(ch) ==
    CASE ch.cmd = SpiErase1K -> 3
      [] ch.cmd = SpiFastRead -> 4
      [] ch.cmd = SpiAai -> IF ch.aai THEN 2 ELSE 5
      [] OTHER -> 0

\* a command byte arrives (chip selected).  A busy chip hears only RDSR; a
\* chip in AAI mode hears only AAI, WRDI and RDSR.  A chip whose fault is
\* "locked" never latches write-enable; one whose fault is "hung" never
\* finishes an erase or a program.
SpiCommand(ch, c) ==
    IF \/ ch.busy /\ c # SpiRdsr
       \/ ch.aai /\ c \notin {SpiAai, SpiWrdi, SpiRdsr}
    THEN [ch EXCEPT !.cmd = 0, !.args = <<>>]
    ELSE CASE c = SpiWren -> [ch EXCEPT !.cmd = c, !.args = <<>>,
                                        !.wel = (ch.fault # "locked")]
           [] c = SpiWrdi -> [ch EXCEPT !.cmd = c, !.args = <<>>,
                                        !.wel = FALSE, !.aai = FALSE]
           [] OTHER -> [ch EXCEPT !.cmd = c, !.args = <<>>]

\* a data byte arrives after the command byte; the command acts when its
\* last byte is in
SpiData(ch, fl, v) ==
    LET args == Append(ch.args, v)
        full == Len(args) = ArgsWanted(ch)
        idx == ModelIndex(args[1], args[2], args[3])
    IN  IF Len(ch.args) >= ArgsWanted(ch)
        THEN [chip |-> ch, flash |-> fl]
        ELSE IF ~full
        THEN [chip |-> [ch EXCEPT !.args = args], flash |-> fl]
        ELSE CASE ch.cmd = SpiErase1K ->
                    IF ch.wel /\ InFlash(fl, idx)
                    THEN [chip |-> [ch EXCEPT !.args = args, !.wel = FALSE,
                                              !.busy = TRUE],
                          flash |-> EraseSectorAt(fl, idx)]
                    ELSE [chip |-> [ch EXCEPT !.args = args], flash |-> fl]
               [] ch.cmd = SpiFastRead ->
                    [chip |-> [ch EXCEPT !.args = args, !.rdPtr = idx],
                     flash |-> fl]
               [] ch.cmd = SpiAai /\ ~ch.aai ->
                    IF ch.wel
                    THEN [chip |-> [ch EXCEPT !.args = args, !.aai = TRUE,
                                              !.busy = TRUE,
                                              !.aaiPtr = idx + 2],
                          flash |-> ProgramByte(ProgramByte(fl, idx, args[4]),
                                                idx + 1, args[5])]
                    ELSE [chip |-> [ch EXCEPT !.args = args], flash |-> fl]
               [] OTHER ->
                    [chip |-> [ch EXCEPT !.args = args, !.busy = TRUE,
                                         !.aaiPtr = ch.aaiPtr + 2],
                     flash |-> ProgramByte(ProgramByte(fl, ch.aaiPtr, args[1]),
                                           ch.aaiPtr + 1, args[2])]

\* the chip clocks out one byte
SpiRead(ch, fl) ==
    CASE ch.cmd = SpiRdsr -> [chip |-> ch, out |-> Status(ch)]
      [] ch.cmd = SpiFastRead /\ Len(ch.args) = 4 ->
            [chip |-> [ch EXCEPT !.rdPtr = IF InFlash(fl, ch.rdPtr)
                                           THEN (ch.rdPtr + 1) % Len(fl)
                                           ELSE ch.rdPtr],
             out |-> IF InFlash(fl, ch.rdPtr) THEN fl[ch.rdPtr + 1] ELSE 255]
      [] OTHER -> [chip |-> ch, out |-> 255]

\* ----------------------------------------------------- the simulated EC
\* what the EC answers to get_param(p)
ParamValue(fl, p) ==
    IF p = ParamSize /\ Len(fl) > RegionBytes THEN SizeExtended ELSE 0

\* The EC takes byte b from the command port.  `ack` is its answer to
\* start; an EC that is not `answers` leaves its output buffer empty.
EcCommand(e, ch, fl, b, ack, answers) ==
    LET out(v) == IF answers THEN <<v>> ELSE <<>>
        idle == [e EXCEPT !.mode = "cmd"]
        deselect == [ch EXCEPT !.cmd = 0, !.args = <<>>]
    IN  CASE e.mode = "spicmd" ->
               [ec |-> idle, flash |-> fl,
                chip |-> IF e.follow THEN SpiCommand(ch, b) ELSE ch]
          [] e.mode = "spidata" ->
               IF e.follow
               THEN [ec |-> idle, chip |-> SpiData(ch, fl, b).chip,
                     flash |-> SpiData(ch, fl, b).flash]
               ELSE [ec |-> idle, chip |-> ch, flash |-> fl]
          [] OTHER ->
               CASE b = EcEnterFollow ->
                      [ec |-> [idle EXCEPT !.follow = TRUE],
                       chip |-> deselect, flash |-> fl]
                 [] b = EcExitFollow ->
                      [ec |-> [idle EXCEPT !.follow = FALSE],
                       chip |-> deselect, flash |-> fl]
                 [] b = EcSpiCmd ->
                      [ec |-> [e EXCEPT !.mode = "spicmd"],
                       chip |-> ch, flash |-> fl]
                 [] b = EcSpiWrite ->
                      [ec |-> [e EXCEPT !.mode = "spidata"],
                       chip |-> ch, flash |-> fl]
                 [] b = EcSpiRead ->
                      IF e.follow
                      THEN [ec |-> [idle EXCEPT !.out = out(SpiRead(ch, fl).out)],
                            chip |-> SpiRead(ch, fl).chip, flash |-> fl]
                      ELSE [ec |-> [idle EXCEPT !.out = out(255)],
                            chip |-> ch, flash |-> fl]
                 [] b = EcStart ->
                      [ec |-> [idle EXCEPT !.out = out(ack), !.acked = out(ack)],
                       chip |-> ch, flash |-> fl]
                 [] b = EcGetParam ->
                      [ec |-> [e EXCEPT !.mode = "param"],
                       chip |-> ch, flash |-> fl]
                 [] b = EcStop1 ->
                      [ec |-> [e EXCEPT !.mode = "stop"],
                       chip |-> ch, flash |-> fl]
                 [] b = EcStop2 ->
                      [ec |-> [idle EXCEPT !.halted = (e.mode = "stop")],
                       chip |-> ch, flash |-> fl]
                 [] OTHER -> [ec |-> idle, chip |-> ch, flash |-> fl]

\* The EC takes byte b from the data port.
EcData(e, fl, b, answers) ==
    IF e.mode = "param"
    THEN [e EXCEPT !.mode = "cmd",
                   !.out = IF answers THEN <<ParamValue(fl, b)>> ELSE <<>>]
    ELSE e

\* ------------------------------------------------------------ Flasher
\* One transfer or step of a Flasher operation.  k: "cmd" (EcFlash::cmd of
\* byte a; m is the byte's role: "ec" command, "spi" command code, "dat" SPI
\* data, "buf" SPI data taken from write's buf at index a), "wr" (EcFlash::write of a), "flush", "val" / "push" / "poll"
\* (EcFlash::read whose byte is returned / pushed onto buf / tested: the
\* loop ends when byte & a = m), "cb" (callback(a)), "cblen"
\* (callback(buf.len())).
Step(k, a, m) == [k |-> k, a |-> a, m |-> m]

\* EcFlash::new(true) in examples/flash.rs
primary == TRUE

enter_follow_mode == <<Step("cmd", EcEnterFollow, "ec")>>

spi_cmd(cmd) == <<Step("cmd", EcSpiCmd, "ec"), Step("cmd", cmd, "spi")>>

spi_write(value) == <<Step("cmd", EcSpiWrite, "ec"), Step("cmd", value, "dat")>>

\* spi_read, by what the caller does with the byte
spi_read(use, mask, want) == <<Step("cmd", EcSpiRead, "ec"), Step(use, mask, want)>>

exit_follow_mode == <<Step("cmd", EcExitFollow, "ec")>>

\* faulty variant: the loop tests the WEL bit
spi_wait_wrong_bit ==
    enter_follow_mode \o spi_cmd(SpiRdsr) \o spi_read("poll", 2, 0)
    \o exit_follow_mode

\* while self.spi_read()? & 1 > 0 {}
spi_wait ==
    enter_follow_mode \o spi_cmd(SpiRdsr) \o spi_read("poll", 1, 0)
    \o exit_follow_mode

\* faulty variant: the loop waits for WEL though 0x06 was not sent
spi_write_enable_unsent ==
    spi_wait \o enter_follow_mode
    \o spi_cmd(SpiRdsr) \o spi_read("poll", 3, 2) \o exit_follow_mode

\* while self.spi_read()? & 3 != 2 {}
spi_write_enable ==
    spi_wait \o enter_follow_mode \o spi_cmd(SpiWren) \o enter_follow_mode
    \o spi_cmd(SpiRdsr) \o spi_read("poll", 3, 2) \o exit_follow_mode

\* while self.spi_read()? & 2 > 0 {}
spi_write_disable ==
    spi_wait \o enter_follow_mode \o spi_cmd(SpiWrdi) \o enter_follow_mode
    \o spi_cmd(SpiRdsr) \o spi_read("poll", 2, 0) \o exit_follow_mode

\* faulty variant: start takes its byte through spi_read instead of ec.read
start_steps_spi ==
    <<Step("cmd", EcStart, "ec"), Step("cmd", EcSpiRead, "ec"),
      Step("val", 0, 0)>>

\* start: cmd(0xDC), read()
start_steps == <<Step("cmd", EcStart, "ec"), Step("val", 0, 0)>>

\* stop: cmd(0x95), cmd(0xFC)
stop_steps == <<Step("cmd", EcStop1, "ec"), Step("cmd", EcStop2, "ec")>>

\* Flasher::new: ec.size() = flush, then get_param(0xE5) = cmd(0x80),
\* write(0xE5), read()
new_steps ==
    <<Step("flush", 0, 0), Step("cmd", EcGetParam, "ec"),
      Step("wr", ParamSize, 0), Step("val", 0, 0)>>

\* faulty variant: the block loop stops one block early
read_sector_short(s) ==
    spi_write_disable \o spi_wait \o enter_follow_mode
    \o spi_cmd(SpiFastRead)
    \o spi_write(AsU8(s)) \o spi_write(0) \o spi_write(0) \o spi_write(0)
    \o Cat([block \in 1..(RegionBlocks - 1) |->
              Cat([i \in 1..BlockBytes |-> spi_read("push", 0, 0)])
              \o <<Step("cblen", 0, 0)>>])
    \o spi_wait

\* the body of read's `for sector` loop
read_sector(s) ==
    spi_write_disable \o spi_wait \o enter_follow_mode
    \o spi_cmd(SpiFastRead)
    \o spi_write(AsU8(s)) \o spi_write(0) \o spi_write(0) \o spi_write(0)
    \o Cat([block \in 1..RegionBlocks |->
              Cat([i \in 1..BlockBytes |-> spi_read("push", 0, 0)])
              \o <<Step("cblen", 0, 0)>>])
    \o spi_wait

\* faulty variant: the sector erase is sent without spi_write_enable
erase_block_no_enable(s, block) ==
    LET index == s * RegionBytes + block * BlockBytes
    IN  spi_wait \o enter_follow_mode \o spi_cmd(SpiErase1K)
        \o spi_write(AsU8(s)) \o spi_write(AsU8(block)) \o spi_write(0)
        \o exit_follow_mode \o spi_wait
        \o <<Step("cb", index + BlockBytes, 0)>>

\* the body of erase's `for block` loop
erase_block(s, block) ==
    LET index == s * RegionBytes + block * BlockBytes
    IN  spi_write_enable \o enter_follow_mode \o spi_cmd(SpiErase1K)
        \o spi_write(AsU8(s)) \o spi_write(AsU8(block)) \o spi_write(0)
        \o exit_follow_mode \o spi_wait
        \o <<Step("cb", index + BlockBytes, 0)>>

\* the body of erase's `for sector` loop
erase_sector(s) ==
    Cat([b \in 1..RegionBlocks |-> erase_block(s, b - 1)])

\* faulty variant: a missing byte is programmed as 0x00
BufGetZero(b, i) == IF i < Len(b) THEN b[i + 1] ELSE 0

\* buf.get(i).map_or(0xFF, |x| *x)
BufGet(b, i) == IF i < Len(b) THEN b[i + 1] ELSE 255

\* spi_write(buf.get(i).map_or(0xFF, |x| *x))
spi_write_buf(i) == <<Step("cmd", EcSpiWrite, "ec"), Step("cmd", i, "buf")>>

\* faulty variant: the address is sent with the first word of every block
write_word_address_per_block(s, block, word) ==
    LET index == s * RegionBytes + block * BlockBytes
    IN  enter_follow_mode \o spi_cmd(SpiAai)
        \o (IF word = 0
            THEN spi_write(AsU8(s)) \o spi_write(AsU8(block))
                 \o spi_write(0)
            ELSE <<>>)
        \o spi_write_buf(index + word * 2)
        \o spi_write_buf(index + word * 2 + 1)
        \o spi_wait

\* the body of write's `for word` loop
write_word(s, block, word) ==
    LET index == s * RegionBytes + block * BlockBytes
    IN  enter_follow_mode \o spi_cmd(SpiAai)
        \o (IF block = 0 /\ word = 0
            THEN spi_write(AsU8(s)) \o spi_write(AsU8(s \div 256))
                 \o spi_write(AsU8(s \div 65536))
            ELSE <<>>)
        \o spi_write_buf(index + word * 2)
        \o spi_write_buf(index + word * 2 + 1)
        \o spi_wait

\* faulty variant: the callback is made before the block is written
write_block_callback_first(s, block) ==
    <<Step("cb", s * RegionBytes + block * BlockBytes + BlockBytes, 0)>>
    \o Cat([w \in 1..BlockWords |-> write_word(s, block, w - 1)])

\* the body of write's `for block` loop
write_block(s, block) ==
    Cat([w \in 1..BlockWords |-> write_word(s, block, w - 1)])
    \o <<Step("cb", s * RegionBytes + block * BlockBytes + BlockBytes, 0)>>

\* the body of write's `for sector` loop
write_sector(s) ==
    spi_write_enable
    \o Cat([k \in 1..RegionBlocks |-> write_block(s, k - 1)])
    \o spi_write_disable \o spi_wait

\* the sector bodies of the three loops, for sector 0 and sector 1
read_steps == <<read_sector(0), read_sector(1)>>
erase_steps == <<erase_sector(0), erase_sector(1)>>
write_steps == <<write_sector(0), write_sector(1)>>

\* the transfers of the operation in progress, for the current sector
Steps ==
    CASE op = "new" -> new_steps
      [] op = "start" -> start_steps
      [] op = "stop" -> stop_steps
      [] op = "read" -> read_steps[sector + 1]
      [] op = "erase" -> erase_steps[sector + 1]
      [] op = "write" -> write_steps[sector + 1]
      [] OTHER -> <<>>

\* the byte a "cmd" transfer writes
StepByte(st) == IF st.m = "buf" THEN BufGet(data, st.a) ELSE st.a

Looping == op \in {"read", "erase", "write"}

\* self.size / 65536
Sectors == size \div RegionBytes

AtStep(k) == op # "none" /\ ip <= Len(Steps) /\ Steps[ip].k \in k

\* what a byte written to the command port is, for the log
CmdClass(st) ==
    IF st.m # "ec" THEN "flash"
    ELSE CASE st.a = EcStart -> "start"
           [] st.a = EcGetParam -> "param"
           [] st.a = EcStop1 -> "stop95"
           [] st.a = EcStop2 -> "stopFC"
           [] OTHER -> "flash"

\* no status read yet
NoStatus == [idle |-> FALSE, ready |-> FALSE, off |-> FALSE, loops |-> 0]

\* a status byte was read: idle is BUSY = 0, ready is BUSY = 0 with WEL = 1,
\* off is WEL = 0; loops tells how many polling loops have ended (0, 1, or
\* 2 for more), ended being whether this read ends one
StatusSeen(m, v, ended) ==
    [idle |-> m.idle \/ v % 2 = 0,
     ready |-> m.ready \/ v % 4 = 2,
     off |-> m.off \/ (v \div 2) % 2 = 0,
     loops |-> IF ended /\ m.loops < 2 THEN m.loops + 1 ELSE m.loops]

\* the log of SPI commands after byte st was written: a command code other
\* than RDSR opens an entry, which notes what the status reads since the
\* entry before it have shown; data bytes join the open entry; the next
\* follow-mode command closes it
SpiLogged(st) ==
    LET mine == spiLog # <<>> /\ Last(spiLog).call = Len(trace)
        open == mine /\ Last(spiLog).end = "open"
        n == Len(spiLog)
    IN  CASE st.m = "spi" /\ StepByte(st) # SpiRdsr ->
               Append(IF mine THEN spiLog ELSE <<>>,
                      [call |-> Len(trace), cmd |-> StepByte(st),
                       args |-> <<>>, idle |-> mon.idle, ready |-> mon.ready,
                       off |-> mon.off, end |-> "open"])
          [] st.m \in {"dat", "buf"} /\ open ->
               [spiLog EXCEPT ![n].args = Append(@, StepByte(st))]
          [] st.m = "ec" /\ st.a = EcEnterFollow /\ open ->
               [spiLog EXCEPT ![n].end = "enter"]
          [] st.m = "ec" /\ st.a = EcExitFollow /\ open ->
               [spiLog EXCEPT ![n].end = "exit"]
          [] OTHER -> spiLog

\* the observation of byte st written to the command port
Observe(st) ==
    /\ cmdLog' = IF /\ CmdClass(st) = "flash"
                    /\ cmdLog # <<>> /\ Last(cmdLog) = "flash"
                 THEN cmdLog ELSE Append(cmdLog, CmdClass(st))
    /\ sentSpi' = IF st.m = "spi" THEN sentSpi \cup {StepByte(st)} ELSE sentSpi
    /\ lastFollow' = IF st.m = "ec" /\ st.a = EcEnterFollow THEN "enter"
                     ELSE IF st.m = "ec" /\ st.a = EcExitFollow THEN "exit"
                     ELSE lastFollow
    /\ spiLog' = SpiLogged(st)
    /\ mon' = IF st.m = "spi" /\ StepByte(st) # SpiRdsr THEN NoStatus ELSE mon

\* the answers the simulated EC may give to start
Acks == {AckStarted, 0, AckStarted + 1}

\* a caller invokes operation o
Call(o) ==
    /\ op' = o
    /\ sector' = 0
    /\ ip' = 1
    /\ ret' = "none"
    /\ progress' = <<>>
    /\ buf' = IF o = "read" THEN <<>> ELSE buf
    /\ blankAtWrite' = IF o = "write" THEN AllFF(flash) ELSE blankAtWrite

\* the operation returns res to its caller
Return(res) ==
    /\ op' = "none"
    /\ ret' = res
    /\ trace' = Append(trace, [op |-> op, res |-> res])
    /\ sector' = 0
    /\ ip' = 1

\* `?` on a channel error: the operation returns Err(()) and its locals are
\* dropped; Flasher::new reads any error as the 64 KiB size class
Fail ==
    IF op = "new"
    THEN /\ Return("ok")
         /\ size' = RegionBytes
         /\ UNCHANGED <<buf, retVal>>
    ELSE /\ Return("err")
         /\ buf' = IF op = "read" THEN <<>> ELSE buf
         /\ UNCHANGED <<size, retVal>>

\* EcFlash::cmd(b) returns Ok: the byte reached the EC
EcCmd ==
    /\ AtStep({"cmd"})
    /\ \E ack \in Acks, answers \in BOOLEAN :
         LET n == EcCommand(ec, chip, flash, StepByte(Steps[ip]), ack, answers)
         IN  ec' = n.ec /\ chip' = n.chip /\ flash' = n.flash
    /\ Observe(Steps[ip])
    /\ ip' = ip + 1
    /\ UNCHANGED <<size, op, sector, buf, data, ret, retVal, progress,
                   trace, flash0, image, blankAtWrite>>
    /\ UNCHANGED mainVars
    /\ UNCHANGED toolVars

\* EcFlash::cmd(b) times out: in the wait before the byte is written, or in
\* the wait after it (the EC may or may not have taken the byte)
EcCmdTimeout ==
    /\ AtStep({"cmd"})
    /\ \/ /\ UNCHANGED <<flash, chip, ec, cmdLog, sentSpi, lastFollow, spiLog, mon>>
       \/ /\ Observe(Steps[ip])
          /\ \/ UNCHANGED <<flash, chip, ec>>
             \/ \E ack \in Acks, answers \in BOOLEAN :
                  LET n == EcCommand(ec, chip, flash, StepByte(Steps[ip]), ack, answers)
                  IN  ec' = n.ec /\ chip' = n.chip /\ flash' = n.flash
    /\ Fail
    /\ UNCHANGED <<data, progress, flash0, image, blankAtWrite>>
    /\ UNCHANGED mainVars
    /\ UNCHANGED toolVars

\* EcFlash::write(b) returns Ok: the byte reached the EC
EcWrite ==
    /\ AtStep({"wr"})
    /\ \E answers \in BOOLEAN : ec' = EcData(ec, flash, Steps[ip].a, answers)
    /\ ip' = ip + 1
    /\ UNCHANGED <<flash, chip, size, op, sector, buf, data, ret, retVal,
                   progress>>
    /\ UNCHANGED mainVars
    /\ UNCHANGED obsVars
    /\ UNCHANGED toolVars

\* EcFlash::write(b) times out, before or after the byte is written
EcWriteTimeout ==
    /\ AtStep({"wr"})
    /\ \/ UNCHANGED ec
       \/ \E answers \in BOOLEAN : ec' = EcData(ec, flash, Steps[ip].a, answers)
    /\ Fail
    /\ UNCHANGED <<flash, chip, data, progress, cmdLog, sentSpi, lastFollow, spiLog, mon,
                   flash0, image, blankAtWrite>>
    /\ UNCHANGED mainVars
    /\ UNCHANGED toolVars

\* EcFlash::flush, its result ignored: stale output is read and discarded
EcFlush ==
    /\ AtStep({"flush"})
    /\ ec' = [ec EXCEPT !.out = <<>>]
    /\ ip' = ip + 1
    /\ UNCHANGED <<flash, chip, size, op, sector, buf, data, ret, retVal,
                   progress>>
    /\ UNCHANGED mainVars
    /\ UNCHANGED obsVars
    /\ UNCHANGED toolVars

\* EcFlash::read returns Ok(v): the EC's output buffer held v
EcRead ==
    /\ AtStep({"val", "push", "poll"})
    /\ ec.out # <<>>
    /\ ec' = [ec EXCEPT !.out = <<>>]
    /\ LET v == ec.out[1]
           st == Steps[ip]
       IN  CASE st.k = "val" /\ op = "new" ->
                  /\ size' = IF primary /\ v = SizeExtended
                             THEN 2 * RegionBytes ELSE RegionBytes
                  /\ ip' = ip + 1
                  /\ UNCHANGED <<buf, retVal>>
             [] st.k = "val" /\ op # "new" ->
                  /\ retVal' = v
                  /\ ip' = ip + 1
                  /\ UNCHANGED <<buf, size>>
             [] st.k = "push" ->
                  /\ buf' = Append(buf, v)
                  /\ ip' = ip + 1
                  /\ UNCHANGED <<retVal, size>>
             [] st.k = "poll" ->
                  /\ ip' = IF BitAnd(v, st.a) = st.m THEN ip + 1 ELSE ip - 1
                  /\ UNCHANGED <<buf, retVal, size>>
    /\ UNCHANGED <<flash, chip, op, sector, data, ret, progress>>
    /\ UNCHANGED mainVars
    /\ UNCHANGED <<trace, cmdLog, sentSpi, lastFollow, spiLog, flash0, image,
                   blankAtWrite>>
    /\ mon' = IF Steps[ip].k = "poll"
              THEN StatusSeen(mon, ec.out[1],
                              BitAnd(ec.out[1], Steps[ip].a) = Steps[ip].m)
              ELSE mon
    /\ UNCHANGED toolVars

\* EcFlash::read times out: the EC's output buffer stayed empty
EcReadTimeout ==
    /\ AtStep({"val", "push", "poll"})
    /\ ec.out = <<>>
    /\ Fail
    /\ UNCHANGED <<flash, chip, ec, data, progress, cmdLog, sentSpi,
                   lastFollow, spiLog, mon, flash0, image, blankAtWrite>>
    /\ UNCHANGED mainVars
    /\ UNCHANGED toolVars

\* the progress callback
Callback ==
    /\ AtStep({"cb", "cblen"})
    /\ progress' = Append(progress, IF Steps[ip].k = "cb" THEN Steps[ip].a
                                    ELSE Len(buf))
    /\ ip' = ip + 1
    /\ UNCHANGED <<flash, chip, ec, size, op, sector, buf, data, ret, retVal>>
    /\ UNCHANGED mainVars
    /\ UNCHANGED obsVars
    /\ UNCHANGED toolVars

\* the head of `for sector in 0..self.size / 65536`, after a sector's body
NextSector ==
    /\ op # "none" /\ ip > Len(Steps)
    /\ Looping /\ sector + 1 < Sectors
    /\ sector' = sector + 1
    /\ ip' = 1
    /\ UNCHANGED <<flash, chip, ec, size, op, buf, data, ret, retVal, progress>>
    /\ UNCHANGED mainVars
    /\ UNCHANGED obsVars
    /\ UNCHANGED toolVars

\* the operation's last statement: Ok(..)
ReturnOk ==
    /\ op # "none" /\ ip > Len(Steps)
    /\ ~(Looping /\ sector + 1 < Sectors)
    /\ Return("ok")
    /\ UNCHANGED <<flash, chip, ec, size, buf, data, retVal, progress,
                   cmdLog, sentSpi, lastFollow, spiLog, mon, flash0, image, blankAtWrite>>
    /\ UNCHANGED mainVars
    /\ UNCHANGED toolVars

\* the flash finishes the erase or program in progress
FlashComplete ==
    /\ chip.busy /\ chip.fault # "hung"
    /\ chip' = [chip EXCEPT !.busy = FALSE]
    /\ UNCHANGED <<flash, ec>>
    /\ UNCHANGED flasherVars
    /\ UNCHANGED mainVars
    /\ UNCHANGED obsVars
    /\ UNCHANGED toolVars

\* ------------------------------------------- examples/flash.rs: main
\* while data.len() < flasher.size { data.push(0xFF) }
PadTo(d, n) ==
    IF Len(d) >= n THEN d ELSE d \o [i \in 1..(n - Len(d)) |-> 255]

\* the println! lines of a verification loop: index, actual, expected, for
\* every i in 0..got.len() with got[i] != want[i]
RECURSIVE Mismatches(_, _, _)
Mismatches(got, want, i) ==
    IF i >= Len(got) THEN <<>>
    ELSE (IF got[i + 1] # want[i + 1]
          THEN <<<<i, got[i + 1], want[i + 1]>>>> ELSE <<>>)
         \o Mismatches(got, want, i + 1)

\* what `erased[i] != 0xFF` compares with
Blank(n) == [i \in 1..n |-> 255]

Returned == op = "none" /\ ret # "none"

\* let ec = EcFlash::new(true); let mut flasher = Flasher::new(ec);
MainNew ==
    /\ pc = "boot"
    /\ Call("new")
    /\ pc' = "new"
    /\ UNCHANGED <<flash, chip, ec, size, data, retVal, success, report,
                   stdout, shutdown, trace, cmdLog, sentSpi, lastFollow, spiLog, mon, flash0, image>>
    /\ UNCHANGED toolVars

\* the padding loop, then flasher.start()
MainStart ==
    /\ pc = "new" /\ Returned
    /\ data' = PadTo(data, size)
    /\ Call("start")
    /\ pc' = "start"
    /\ UNCHANGED <<flash, chip, ec, size, retVal, success, report, stdout,
                   shutdown, trace, cmdLog, sentSpi, lastFollow, spiLog, mon, flash0, image>>
    /\ UNCHANGED toolVars

\* flasher.start() == Ok(51) is false: "Failed to start flasher"
MainStartRejected ==
    /\ pc = "start" /\ Returned
    /\ ~(ret = "ok" /\ retVal = AckStarted)
    /\ report' = "Failed to start flasher"
    /\ pc' = "done"
    /\ UNCHANGED <<success, stdout, shutdown>>
    /\ UNCHANGED envVars
    /\ UNCHANGED flasherVars
    /\ UNCHANGED obsVars
    /\ UNCHANGED toolVars

\* faulty variant: the flow goes on whenever start returned Ok, whatever the byte
MainPreReadUnchecked ==
    /\ pc = "start" /\ Returned
    /\ ret = "ok"
    /\ success' = FALSE
    /\ Call("read")
    /\ pc' = "preread"
    /\ UNCHANGED <<flash, chip, ec, size, data, retVal, report, stdout,
                   shutdown, trace, cmdLog, sentSpi, lastFollow, spiLog, mon, flash0, image>>
    /\ UNCHANGED toolVars

\* start accepted: success = false, then the first read
MainPreRead ==
    /\ pc = "start" /\ Returned
    /\ ret = "ok" /\ retVal = AckStarted
    /\ success' = FALSE
    /\ Call("read")
    /\ pc' = "preread"
    /\ UNCHANGED <<flash, chip, ec, size, data, retVal, report, stdout,
                   shutdown, trace, cmdLog, sentSpi, lastFollow, spiLog, mon, flash0, image>>
    /\ UNCHANGED toolVars

\* the first read returned Ok: erase
MainErase ==
    /\ pc = "preread" /\ Returned /\ ret = "ok"
    /\ Call("erase")
    /\ pc' = "erase"
    /\ UNCHANGED <<flash, chip, ec, size, data, retVal, success, report,
                   stdout, shutdown, trace, cmdLog, sentSpi, lastFollow, spiLog, mon, flash0, image>>
    /\ UNCHANGED toolVars

\* erase returned Ok: read the erased flash
MainReadErased ==
    /\ pc = "erase" /\ Returned /\ ret = "ok"
    /\ Call("read")
    /\ pc' = "reread"
    /\ UNCHANGED <<flash, chip, ec, size, data, retVal, success, report,
                   stdout, shutdown, trace, cmdLog, sentSpi, lastFollow, spiLog, mon, flash0, image>>
    /\ UNCHANGED toolVars

\* the erased flash was read: print every byte that is not 0xFF, then write
MainWrite ==
    /\ pc = "reread" /\ Returned /\ ret = "ok"
    /\ stdout' = stdout \o Mismatches(buf, Blank(Len(buf)), 0)
    /\ Call("write")
    /\ pc' = "program"
    /\ UNCHANGED <<flash, chip, ec, size, data, retVal, success, report,
                   shutdown, trace, cmdLog, sentSpi, lastFollow, spiLog, mon, flash0, image>>
    /\ UNCHANGED toolVars

\* write returned Ok: read the written flash
MainReadWritten ==
    /\ pc = "program" /\ Returned /\ ret = "ok"
    /\ Call("read")
    /\ pc' = "finalread"
    /\ UNCHANGED <<flash, chip, ec, size, data, retVal, success, report,
                   stdout, shutdown, trace, cmdLog, sentSpi, lastFollow, spiLog, mon, flash0, image>>
    /\ UNCHANGED toolVars

\* faulty variant: the comparison never clears success
MainVerifyNoCompare ==
    /\ pc = "finalread" /\ Returned /\ ret = "ok"
    /\ stdout' = stdout \o Mismatches(buf, data, 0)
    /\ success' = TRUE
    /\ Call("stop")
    /\ pc' = "stop"
    /\ UNCHANGED <<flash, chip, ec, size, data, retVal, report, shutdown,
                   trace, cmdLog, sentSpi, lastFollow, spiLog, mon, flash0, image>>
    /\ UNCHANGED toolVars

\* the written flash was read: success = true, unless a byte differs from
\* data; then sync and flasher.stop()
MainVerify ==
    /\ pc = "finalread" /\ Returned /\ ret = "ok"
    /\ stdout' = stdout \o Mismatches(buf, data, 0)
    /\ success' = (Mismatches(buf, data, 0) = <<>>)
    /\ Call("stop")
    /\ pc' = "stop"
    /\ UNCHANGED <<flash, chip, ec, size, data, retVal, report, shutdown,
                   trace, cmdLog, sentSpi, lastFollow, spiLog, mon, flash0, image>>
    /\ UNCHANGED toolVars

\* faulty variant: a failed phase ends the flow without stop
MainPhaseFailedNoStop ==
    /\ pc \in {"preread", "erase", "reread", "program", "finalread"}
    /\ Returned /\ ret = "err"
    /\ report' = "Failed to flash EC"
    /\ pc' = "done"
    /\ UNCHANGED <<success, stdout, shutdown>>
    /\ UNCHANGED envVars
    /\ UNCHANGED flasherVars
    /\ UNCHANGED obsVars
    /\ UNCHANGED toolVars

\* a phase returned Err: its "Failed to ..." line, then sync and
\* flasher.stop()
MainPhaseFailed ==
    /\ pc \in {"preread", "erase", "reread", "program", "finalread"}
    /\ Returned /\ ret = "err"
    /\ report' = CASE pc = "preread" -> "Failed to read original data"
                   [] pc = "erase" -> "Failed to erase data"
                   [] pc = "reread" -> "Failed to read erased data"
                   [] pc = "program" -> "Failed to write data"
                   [] OTHER -> "Failed to read written data"
    /\ Call("stop")
    /\ pc' = "stop"
    /\ UNCHANGED <<flash, chip, ec, size, data, retVal, success, stdout,
                   shutdown, trace, cmdLog, sentSpi, lastFollow, spiLog, mon, flash0, image>>
    /\ UNCHANGED toolVars

\* let _ = flasher.stop(); then the verdict, and shutdown on success
MainReport ==
    /\ pc = "stop" /\ Returned
    /\ report' = IF success THEN "Successfully flashed EC"
                 ELSE "Failed to flash EC"
    /\ shutdown' = success
    /\ pc' = "done"
    /\ UNCHANGED <<success, stdout>>
    /\ UNCHANGED envVars
    /\ UNCHANGED flasherVars
    /\ UNCHANGED obsVars
    /\ UNCHANGED toolVars

\* ------------------------------------------------------ initial states
\* image byte i of the firmware file
ImageByte(i) == i % 256

ImageOfLen(n) == [i \in 1..n |-> ImageByte(i - 1)]

\* empty, one byte, a block and a byte, two regions and a byte
ImageLens == {0, 1, BlockBytes + 1, 2 * RegionBytes + 1}

Images == {ImageOfLen(n) : n \in ImageLens}

\* an n-byte flash that is blank but for sector s, filled with 0xAA
DirtySector(n, s) ==
    [i \in 1..n |-> IF (i - 1) \div BlockBytes = s THEN 170 ELSE 255]

\* initial flash contents of an n-byte device: blank, filled with 0xAA, or
\* blank but for its first or its last sector
FlashInits(n) ==
    {Blank(n), [i \in 1..n |-> 170], DirtySector(n, 0),
     DirtySector(n, n \div BlockBytes - 1)}

InitEnv ==
    /\ \E regions \in {1, 2} : flash \in FlashInits(regions * RegionBytes)
    /\ flash0 = flash
    /\ chip = [wel |-> FALSE, busy |-> FALSE, aai |-> FALSE, aaiPtr |-> 0,
               rdPtr |-> 0, cmd |-> 0, args |-> <<>>, fault |-> "none"]
    /\ \E stale \in {<<>>, <<0>>} :
         ec = [follow |-> FALSE, mode |-> "cmd", out |-> stale,
               acked |-> <<>>, halted |-> FALSE]

InitFlasher ==
    /\ size = 0
    /\ op = "none"
    /\ sector = 0
    /\ ip = 1
    /\ buf = <<>>
    /\ ret = "none"
    /\ retVal = 0
    /\ progress = <<>>
    /\ success = FALSE
    /\ report = ""
    /\ stdout = <<>>
    /\ shutdown = FALSE
    /\ trace = <<>>
    /\ cmdLog = <<>>
    /\ sentSpi = {}
    /\ lastFollow = "none"
    /\ spiLog = <<>>
    /\ mon = NoStatus
    /\ blankAtWrite = FALSE

\* the other programs are not running
FileIdle ==
    /\ file = <<>>
    /\ queries = <<>>

ReportIdle ==
    /\ rpc = "off"
    /\ attempt = 0
    /\ pending = <<>>
    /\ calls = 0
    /\ disagreements = 0
    /\ lines = <<>>
    /\ validated = <<>>
    /\ lastCall = <<>>

IspIdle ==
    /\ spiFlash = <<>>
    /\ spiChip = <<>>
    /\ busData = FALSE
    /\ bus = <<>>
    /\ ipc = "off"
    /\ fwFile = <<>>
    /\ firmware = <<>>
    /\ rom = <<>>
    /\ ispRes = "none"
    /\ romCall = <<>>
    /\ port = <<>>
    /\ pmc = <<>>
    /\ ispErr = <<>>

\* no operation in progress on the channel
NoCall == [name |-> "none", a |-> 0, b |-> 0, buf |-> <<>>]

ChanIdle ==
    /\ sio = <<>>
    /\ chan = <<>>
    /\ cop = NoCall
    /\ cip = 1
    /\ cph = "w1"
    /\ tmo = 0
    /\ polls = 0
    /\ sawReady = FALSE
    /\ lastPoll = <<>>
    /\ clog = <<>>
    /\ cres = <<>>
    /\ cstr = <<>>
    /\ cbuf = <<>>
    /\ ccalls = 0

ToolsIdle ==
    /\ FileIdle
    /\ ReportIdle
    /\ IspIdle
    /\ ChanIdle

\* examples/flash.rs: the file is read, then main runs
Init ==
    /\ InitEnv
    /\ ToolsIdle
    /\ InitFlasher
    /\ data \in Images
    /\ image = data
    /\ pc = "boot"

Next ==
    \/ EcCmd
    \/ EcCmdTimeout
    \/ EcWrite
    \/ EcWriteTimeout
    \/ EcFlush
    \/ EcRead
    \/ EcReadTimeout
    \/ Callback
    \/ NextSector
    \/ ReturnOk
    \/ FlashComplete
    \/ MainNew
    \/ MainStart
    \/ MainStartRejected
    \/ MainPreRead
    \/ MainErase
    \/ MainReadErased
    \/ MainWrite
    \/ MainReadWritten
    \/ MainVerify
    \/ MainPhaseFailed
    \/ MainReport

\* the top-level flashing flow
Spec == Init /\ [][Next]_vars

\* --------------------------------------- a free client of the Flasher
\* The client constructs a Flasher, starts it, and once the start is
\* acknowledged calls read, erase and write in any order, at most MaxCalls
\* times, for as long as the calls return Ok.
ApiNew ==
    /\ pc = "apiboot"
    /\ Call("new")
    /\ pc' = "apinew"
    /\ UNCHANGED <<flash, chip, ec, size, data, retVal, success, report,
                   stdout, shutdown, trace, cmdLog, sentSpi, lastFollow, spiLog, mon, flash0, image>>
    /\ UNCHANGED toolVars

ApiStart ==
    /\ pc = "apinew" /\ Returned
    /\ Call("start")
    /\ pc' = "apistart"
    /\ UNCHANGED <<flash, chip, ec, size, data, retVal, success, report,
                   stdout, shutdown, trace, cmdLog, sentSpi, lastFollow, spiLog, mon, flash0, image>>
    /\ UNCHANGED toolVars

ApiReady ==
    /\ \/ pc = "apistart" /\ retVal = AckStarted
       \/ pc = "api" /\ Len(trace) < MaxCalls + 2
    /\ Returned /\ ret = "ok"

ApiRead ==
    /\ ApiReady
    /\ Call("read")
    /\ pc' = "api"
    /\ UNCHANGED <<flash, chip, ec, size, data, retVal, success, report,
                   stdout, shutdown, trace, cmdLog, sentSpi, lastFollow, spiLog, mon, flash0, image>>
    /\ UNCHANGED toolVars

ApiErase ==
    /\ ApiReady
    /\ Call("erase")
    /\ pc' = "api"
    /\ UNCHANGED <<flash, chip, ec, size, data, retVal, success, report,
                   stdout, shutdown, trace, cmdLog, sentSpi, lastFollow, spiLog, mon, flash0, image>>
    /\ UNCHANGED toolVars

\* the buffers the client writes: empty, a block and a byte (odd, so the
\* last word is half padding), a whole region
ApiImageLens == {0, BlockBytes + 1, RegionBytes}

ApiImages == {ImageOfLen(n) : n \in ApiImageLens}

ApiWrite ==
    /\ ApiReady
    /\ data' \in ApiImages
    /\ Call("write")
    /\ pc' = "api"
    /\ UNCHANGED <<flash, chip, ec, size, retVal, success, report,
                   stdout, shutdown, trace, cmdLog, sentSpi, lastFollow, spiLog, mon, flash0, image>>
    /\ UNCHANGED toolVars

\* the client meets the flash blank or filled with 0xAA
InitApi ==
    /\ InitEnv
    /\ ToolsIdle
    /\ flash \in {Blank(Len(flash)), [i \in 1..Len(flash) |-> 170]}
    /\ InitFlasher
    /\ data = <<>>
    /\ image = <<>>
    /\ pc = "apiboot"

NextApi ==
    \/ EcCmd
    \/ EcCmdTimeout
    \/ EcWrite
    \/ EcWriteTimeout
    \/ EcFlush
    \/ EcRead
    \/ EcReadTimeout
    \/ Callback
    \/ NextSector
    \/ ReturnOk
    \/ FlashComplete
    \/ ApiNew
    \/ ApiStart
    \/ ApiRead
    \/ ApiErase
    \/ ApiWrite

\* the Flasher under any client
SpecApi == InitApi /\ [][NextApi]_vars

\* ================================================================ claims
\* the operation that returned last, and the one before it
Idle == op = "none" /\ trace # <<>>

LastOp == Last(trace)

PrevOp == trace[Len(trace) - 1]

\* C1 as claimed: after erase returned Ok, a following read that returns
\* Ok gives a buffer in which every byte is 0xFF, whatever the flash held
\* before and for both device sizes.
C1_EraseThenReadBlank ==
    (/\ Idle /\ Len(trace) >= 2
     /\ LastOp = [op |-> "read", res |-> "ok"]
     /\ PrevOp = [op |-> "erase", res |-> "ok"])
    => AllFF(buf)

\* C2: write(B) with len(B) <= size on a blank flash returned Ok, and the
\* following read returned Ok: the buffer read is B followed by 0xFF up to
\* Flasher.size.
C2_WriteThenReadRoundTrip ==
    (/\ Idle /\ Len(trace) >= 2
     /\ LastOp = [op |-> "read", res |-> "ok"]
     /\ PrevOp = [op |-> "write", res |-> "ok"]
     /\ blankAtWrite
     /\ Len(data) <= size)
    => /\ Len(buf) = size
       /\ \A i \in 0..(size - 1) :
            buf[i + 1] = IF i < Len(data) THEN data[i + 1] ELSE 255

\* C2's case: a non-empty image shorter than the device was written to a
\* blank flash and read back
C2_Witness ==
    /\ Idle /\ Len(trace) >= 2
    /\ LastOp = [op |-> "read", res |-> "ok"]
    /\ PrevOp = [op |-> "write", res |-> "ok"]
    /\ blankAtWrite
    /\ Len(data) > 1 /\ Len(data) < size
    /\ size = 2 * RegionBytes

\* C3: whenever read returns Ok(buf), len(buf) is exactly Flasher.size, and
\* the size is one of the two the constructor caches.
C3_ReadLengthIsSize ==
    (Idle /\ LastOp = [op |-> "read", res |-> "ok"])
    => /\ Len(buf) = size
       /\ size \in {RegionBytes, 2 * RegionBytes}

\* C3's case: a read of the two-region device returned Ok
C3_Witness ==
    /\ Idle /\ LastOp = [op |-> "read", res |-> "ok"]
    /\ size = 2 * RegionBytes
    /\ Len(buf) = 2 * RegionBytes

\* C4 as claimed: whenever read, erase or write returns (and so whenever the
\* spi_wait, spi_write_enable or spi_write_disable it was in returns), the
\* last follow-mode command written to the channel is not enter: every
\* enter has been followed by an exit.
C4_FollowOffAtEveryReturn ==
    (Idle /\ LastOp.op \in {"read", "erase", "write"})
    => lastFollow # "enter"

\* C5 as claimed: when a channel timeout makes read, erase or write fail,
\* follow mode has been left before control is back with the caller: the
\* next user of the channel finds the EC out of follow mode.
C5_ReleasedOnFailure ==
    (Idle /\ LastOp.op \in {"read", "erase", "write"} /\ LastOp.res = "err")
    => ~ec.follow

\* C7 as claimed: start reports an error when the EC answers 0xDC with a
\* value other than 51.
C7_StartErrOnOtherAck ==
    (/\ Idle /\ LastOp.op = "start"
     /\ ec.acked # <<>> /\ ec.acked # <<AckStarted>>)
    => LastOp.res = "err"

\* C7 amended: start returns Ok(b) with the byte b the EC answered to 0xDC,
\* whatever b is; telling 51 from the rest is left to the caller.
C7_StartReturnsAck ==
    (Idle /\ LastOp = [op |-> "start", res |-> "ok"])
    => ec.acked = <<retVal>>

\* C7's case: the EC answered 0 and start returned Ok(0)
C7_Witness ==
    /\ Idle /\ LastOp = [op |-> "start", res |-> "ok"]
    /\ ec.acked = <<0>>
    /\ retVal = 0

\* --- the top-level flow (Spec)
\* the result of the k-th operation of the flow, "none" if it did not run
PhaseRes(k) == IF Len(trace) >= k THEN trace[k].res ELSE "none"

\* byte i of the image under 0xFF padding
Expected(i) == IF i < Len(image) THEN image[i + 1] ELSE 255

\* C6: unless the EC acknowledged start with exactly 51, the flow writes
\* nothing to the command port but the size query and the start command,
\* the flash keeps its contents, and the flow ends reporting failure.
C6_NothingWithoutAck ==
    ec.acked # <<AckStarted>>
    => /\ \A i \in 1..Len(cmdLog) : cmdLog[i] \in {"param", "start"}
       /\ sentSpi = {}
       /\ lastFollow = "none"
       /\ flash = flash0
       /\ ~success /\ ~shutdown
       /\ pc = "done" => report = "Failed to start flasher"

\* C6's case: the EC answered start with another byte and the flow ended
C6_Witness ==
    /\ pc = "done"
    /\ ec.acked = <<0>>
    /\ cmdLog = <<"param", "start">>
    /\ report = "Failed to start flasher"

\* C8 as claimed: once a byte re-read after the erase is not 0xFF (its
\* offset and value are printed), no AAI program command is issued.
C8_NoProgramAfterEraseMismatch ==
    (pc = "program" /\ stdout # <<>>) => SpiAai \notin sentSpi

\* C9: the flow reports success, and only then runs shutdown, exactly when
\* write returned Ok, the last read returned Ok and every byte i of it is
\* image[i] for i < len(image) and 0xFF beyond.
C9_SuccessIffVerified ==
    pc = "done"
    => /\ (report = "Successfully flashed EC")
          <=> /\ PhaseRes(6) = "ok"
              /\ PhaseRes(7) = "ok"
              /\ Len(buf) = size
              /\ \A i \in 0..(size - 1) : buf[i + 1] = Expected(i)
       /\ shutdown <=> (report = "Successfully flashed EC")

\* C9's cases: a flow that ended in success with an image shorter than the
\* device, and one that ended in failure on a single deviating byte
C9_Witness ==
    /\ pc = "done"
    /\ report = "Successfully flashed EC" /\ shutdown
    /\ Len(image) > 0 /\ Len(image) < size

C9_WitnessOneByte ==
    /\ pc = "done"
    /\ PhaseRes(6) = "ok" /\ PhaseRes(7) = "ok"
    /\ Cardinality({i \in 0..(size - 1) : buf[i + 1] # Expected(i)}) = 1
    /\ report = "Failed to flash EC" /\ ~shutdown

\* the operations of the flow, in order
FlowOps == <<"new", "start", "read", "erase", "read", "write", "read">>

\* C10: after the accepted start the phases run in the order pre-read,
\* erase, read, program, read, each only if all before it returned Ok; stop
\* is called exactly once, after the last phase attempted, whether the
\* phases succeeded or failed; it writes 0x95 and then 0xFC, and nothing
\* is written to the command port after them.
C10_PhaseOrderThenStop ==
    LET n == Len(trace)
        stops == {k \in 1..n : trace[k].op = "stop"}
        accepted == PhaseRes(2) = "ok" /\ retVal = AckStarted
    IN  /\ \A k \in 1..n :
              IF trace[k].op = "stop"
              THEN k = n /\ k >= 3 /\ accepted
              ELSE /\ k <= Len(FlowOps) /\ trace[k].op = FlowOps[k]
                   /\ k < n /\ trace[k + 1].op # "stop" => trace[k].res = "ok"
        /\ op \notin {"none", "stop"} => \A k \in 1..n : trace[k].res = "ok"
        /\ op = "stop" => stops = {}
        /\ pc = "done" /\ accepted => Cardinality(stops) = 1
        /\ pc = "done" /\ accepted /\ PhaseRes(n) = "ok"
              => /\ Len(cmdLog) >= 2
                 /\ cmdLog[Len(cmdLog) - 1] = "stop95"
                 /\ cmdLog[Len(cmdLog)] = "stopFC"
        /\ \A i \in 1..Len(cmdLog) :
              /\ cmdLog[i] = "stop95"
                    => /\ \A j \in 1..Len(cmdLog) : cmdLog[j] = "stop95" => j = i
                       /\ i < Len(cmdLog)
                            => i + 1 = Len(cmdLog) /\ cmdLog[i + 1] = "stopFC"
              /\ cmdLog[i] = "stopFC"
                    => i = Len(cmdLog) /\ i > 1 /\ cmdLog[i - 1] = "stop95"

\* C10's cases: every phase ran and stop followed; a phase failed and stop
\* followed
C10_Witness ==
    /\ pc = "done"
    /\ Len(trace) = 8
    /\ \A k \in 1..8 : trace[k].res = "ok"
    /\ trace[8].op = "stop"
    /\ cmdLog = <<"param", "start", "flash", "stop95", "stopFC">>

C10_WitnessFailedPhase ==
    /\ pc = "done"
    /\ Len(trace) = 5
    /\ trace[4] = [op |-> "erase", res |-> "err"]
    /\ trace[5] = [op |-> "stop", res |-> "ok"]

\* C11 as claimed: an image longer than the device is rejected before any
\* erase or program command is issued, and the flow never reports success
\* for it.
C11_OverlongImageRejected ==
    (pc \notin {"boot", "new"} /\ Len(image) > size)
    => /\ SpiErase1K \notin sentSpi
       /\ SpiAai \notin sentSpi
       /\ report # "Successfully flashed EC"

\* ============================================ src/src/file.rs: EcFile
\* bounds of the captured images
MaxPre == 2
MaxPost == 4
MaxQueries == 2

\* b'$' and ' '
Dollar == 36
Space == 32
\* a byte that belongs to no key
OtherByte == 120

\* b"PRJ:" and b"VER:"
KeyPrj == <<80, 82, 74, 58>>
KeyVer == <<86, 69, 82, 58>>

\* the idle state of the flasher and of the simulated EC, for the programs
\* that do not use them
CoreIdle ==
    /\ InitFlasher
    /\ flash = <<>>
    /\ flash0 = <<>>
    /\ chip = [wel |-> FALSE, busy |-> FALSE, aai |-> FALSE, aaiPtr |-> 0,
               rdPtr |-> 0, cmd |-> 0, args |-> <<>>, fault |-> "none"]
    /\ ec = [follow |-> FALSE, mode |-> "cmd", out |-> <<>>,
             acked |-> <<>>, halted |-> FALSE]
    /\ data = <<>>
    /\ image = <<>>
    /\ pc = "off"

\* get_str's scan from byte n (1-based) with i key bytes matched and string
\* collected so far.  `byte as char` is the character whose code point is
\* the byte; strings are sequences of code points.
RECURSIVE GetStrFrom(_, _, _, _, _)
GetStrFrom(bytes, key, n, i, string) ==
    IF n > Len(bytes) THEN string
    ELSE LET byte == bytes[n]
         IN  IF i < Len(key)
             THEN IF byte = key[i + 1]
                  THEN GetStrFrom(bytes, key, n + 1, i + 1, string)
                  ELSE IF i = 0
                  THEN GetStrFrom(bytes, key, n + 1, 0, string)
                  ELSE GetStrFrom(bytes, key, n, 0, string)
             ELSE IF byte = Dollar
             THEN string
             ELSE GetStrFrom(bytes, key, n + 1, i, Append(string, byte))

\* faulty variant: a mismatch after a partial match moves on to the next
\* byte without re-checking the current one against key[0]
EcFile_get_str_skip(bytes, key) ==
    LET RECURSIVE Scan(_, _, _)
        Scan(n, i, string) ==
            IF n > Len(bytes) THEN string
            ELSE IF i < Len(key)
            THEN Scan(n + 1, IF bytes[n] = key[i + 1] THEN i + 1 ELSE 0, string)
            ELSE IF bytes[n] = Dollar THEN string
            ELSE Scan(n + 1, i, Append(string, bytes[n]))
    IN  Scan(1, 0, <<>>)

\* EcFile::get_str
EcFile_get_str(bytes, key) == GetStrFrom(bytes, key, 1, 0, <<>>)

\* faulty variant: size counts the bytes before the first '$'
EcFile_size_to_dollar(bytes) ==
    Cardinality({n \in 1..Len(bytes) : \A m \in 1..n : bytes[m] # Dollar})

\* EcFile::size
EcFile_size(bytes) == Len(bytes)

\* EcFile::project
EcFile_project(bytes) == EcFile_get_str(bytes, KeyPrj)

RECURSIVE StripLeadingSpaces(_)
\* while version.starts_with(' ') { version.remove(0); }
StripLeadingSpaces(version) ==
    IF version # <<>> /\ Head(version) = Space
    THEN StripLeadingSpaces(Tail(version))
    ELSE version

\* faulty variant: only one leading space is removed
EcFile_version_one(bytes) ==
    LET version == EcFile_get_str(bytes, KeyVer)
    IN  IF version # <<>> /\ Head(version) = Space THEN Tail(version)
        ELSE version

\* EcFile::version
EcFile_version(bytes) == StripLeadingSpaces(EcFile_get_str(bytes, KeyVer))

\* a caller asks for the project
FileProject ==
    /\ Len(queries) < MaxQueries
    /\ queries' = Append(queries, [q |-> "project", v |-> EcFile_project(file)])
    /\ UNCHANGED file
    /\ UNCHANGED <<coreVars, reportVars, ispVars, chanVars>>

\* a caller asks for the version
FileVersion ==
    /\ Len(queries) < MaxQueries
    /\ queries' = Append(queries, [q |-> "version", v |-> EcFile_version(file)])
    /\ UNCHANGED file
    /\ UNCHANGED <<coreVars, reportVars, ispVars, chanVars>>

\* a caller asks for the size
FileSize ==
    /\ Len(queries) < MaxQueries
    /\ queries' = Append(queries, [q |-> "size", v |-> EcFile_size(file)])
    /\ UNCHANGED file
    /\ UNCHANGED <<coreVars, reportVars, ispVars, chanVars>>

\* all sequences over alphabet of length at most n
RECURSIVE SeqsUpTo(_, _)
SeqsUpTo(alphabet, n) ==
    IF n = 0 THEN {<<>>}
    ELSE LET shorter == SeqsUpTo(alphabet, n - 1)
         IN  shorter \cup {Append(s, a) : s \in shorter, a \in alphabet}

\* The captured images: bytes that partially match a key, then the key or
\* nothing, then spaces, other bytes and terminators.
Files ==
    UNION {{pre \o mid \o post :
               pre \in SeqsUpTo({key[1], key[2]}, MaxPre),
               mid \in {key, <<>>},
               post \in SeqsUpTo({Space, OtherByte, Dollar}, MaxPost)} :
           key \in {KeyPrj, KeyVer}}

\* EcFile::new(data)
InitFile ==
    /\ CoreIdle
    /\ ChanIdle
    /\ ReportIdle
    /\ IspIdle
    /\ file \in Files
    /\ queries = <<>>

NextFile ==
    \/ FileProject
    \/ FileVersion
    \/ FileSize

\* a file-backed binding under any sequence of queries
SpecFile == InitFile /\ [][NextFile]_vars

\* --- claims about the file-backed binding (SpecFile)
\* the places where key occurs in bytes
Occurrences(bytes, key) ==
    {n \in 1..(Len(bytes) - Len(key) + 1) :
        SubSeq(bytes, n, n + Len(key) - 1) = key}

\* the places of a '$' at or after place n
DollarsFrom(bytes, n) == {d \in n..Len(bytes) : bytes[d] = Dollar}

\* the least element of a non-empty set of numbers
Least(S) == CHOOSE n \in S : \A m \in S : n <= m

\* the bytes between the first occurrence of key and the next '$'
TaggedValue(bytes, key) ==
    LET start == Least(Occurrences(bytes, key)) + Len(key)
    IN  SubSeq(bytes, start, Least(DollarsFrom(bytes, start)) - 1)

\* bytes holds key, and a '$' after its first occurrence
HasTagged(bytes, key) ==
    /\ Occurrences(bytes, key) # {}
    /\ DollarsFrom(bytes, Least(Occurrences(bytes, key)) + Len(key)) # {}

\* the number of spaces s begins with
LeadingSpaces(s) ==
    Cardinality({n \in 1..Len(s) : \A m \in 1..n : s[m] = Space})

\* C15: when the image holds exactly one 'PRJ:' and a '$' after it, project
\* returns exactly the bytes between them, also when bytes that partially
\* match the key come right before it.
C15_ProjectReturnsTaggedValue ==
    \A k \in 1..Len(queries) :
        (/\ queries[k].q = "project"
         /\ Cardinality(Occurrences(file, KeyPrj)) = 1
         /\ HasTagged(file, KeyPrj))
        => queries[k].v = TaggedValue(file, KeyPrj)

\* C15's case: 'PRPRJ:x$' was asked for its project, which is 'x'
C15_Witness ==
    /\ file = <<80, 82>> \o KeyPrj \o <<OtherByte, Dollar>>
    /\ queries # <<>>
    /\ queries[1] = [q |-> "project", v |-> <<OtherByte>>]

\* C16: when the image holds 'VER:', then spaces, a value X and '$', version
\* returns X: the leading spaces are removed and every other byte is kept.
C16_VersionStripsLeadingSpaces ==
    \A k \in 1..Len(queries) :
        (queries[k].q = "version" /\ HasTagged(file, KeyVer))
        => LET raw == TaggedValue(file, KeyVer)
           IN  queries[k].v = SubSeq(raw, LeadingSpaces(raw) + 1, Len(raw))

\* C16's case: 'VER: x $' was asked for its version, which is 'x '
C16_Witness ==
    /\ file = KeyVer \o <<Space, OtherByte, Space, Dollar>>
    /\ queries # <<>>
    /\ queries[1] = [q |-> "version", v |-> <<OtherByte, Space>>]

C17_WitnessSize ==
    /\ queries # <<>>
    /\ queries[1].q = "size" /\ queries[1].v > 2
    /\ DollarsFrom(file, 1) # {}

\* ============ src/src/main.rs on a live EC (impl Ec for EcFlash, flash.rs)
\* reads get_str makes at most (the code: 16)
MaxStrReads == 2

\* validate(.., 8)
Attempts == 8
\* get_str(0x92), get_str(0x93)
CmdProject == 146
CmdVersion == 147
\* a byte of a string the EC sends
LetterA == 65

\* "1."
VersionPrefix == <<49, 46>>

\* what the EC may deliver after a string command: up to MaxStrReads + 1
\* bytes; a read beyond them times out
Replies == SeqsUpTo({LetterA, Dollar}, MaxStrReads + 1)

\* what the EC may answer to get_param(0xE5)
ParamAnswers == {SizeExtended, 0, SizeExtended + 1}

\* where get_param ends: cmd, write or read timed out, or all returned Ok
Stages == {"cmd", "write", "read", "ok"}

\* EcFlash::get_str(index) when the EC delivers reply; cmdOk: cmd(index)
\* returned Ok.  sent: the bytes written to the ports.
EcFlash_get_str(index, reply, cmdOk) ==
    LET RECURSIVE Reads(_, _)
        Reads(i, string) ==
            IF i = MaxStrReads
            THEN [ok |-> TRUE, string |-> string, sent |-> <<index>>]
            ELSE IF i + 1 > Len(reply)
            THEN [ok |-> FALSE, string |-> <<>>, sent |-> <<index>>]
            ELSE IF reply[i + 1] = Dollar
            THEN [ok |-> TRUE, string |-> string, sent |-> <<index>>]
            ELSE Reads(i + 1, Append(string, reply[i + 1]))
    IN  IF cmdOk THEN Reads(0, <<>>)
        ELSE [ok |-> FALSE, string |-> <<>>, sent |-> <<>>]

\* EcFlash::get_param(param): cmd(0x80)?; write(param)?; read()
EcFlash_get_param(param, stage, byte) ==
    [ok |-> stage = "ok",
     byte |-> byte,
     sent |-> CASE stage = "cmd" -> <<>>
                [] stage = "write" -> <<EcGetParam>>
                [] OTHER -> <<EcGetParam, param>>]

\* EcFlash::project: get_str(0x92).unwrap_or_default(), after a flush whose
\* result is ignored
EcFlash_project(reply, cmdOk) ==
    LET r == EcFlash_get_str(CmdProject, reply, cmdOk)
    IN  [v |-> IF r.ok THEN r.string ELSE <<>>,
         timedOut |-> ~r.ok, sent |-> r.sent,
         answer |-> IF r.ok THEN <<r.string>> ELSE <<>>]

\* EcFlash::version: "1." before get_str(0x93).unwrap_or_default()
EcFlash_version(reply, cmdOk) ==
    LET r == EcFlash_get_str(CmdVersion, reply, cmdOk)
    IN  [v |-> VersionPrefix \o (IF r.ok THEN r.string ELSE <<>>),
         timedOut |-> ~r.ok, sent |-> r.sent,
         answer |-> IF r.ok THEN <<r.string>> ELSE <<>>]

\* faulty variant: every answer with bit 7 set selects the larger size
EcFlash_size_bit7(stage, byte) ==
    LET r == EcFlash_get_param(ParamSize, stage, byte)
    IN  [v |-> IF primary /\ r.ok /\ r.byte >= SizeExtended
               THEN 128 * 1024 ELSE 64 * 1024,
         timedOut |-> ~r.ok, sent |-> r.sent,
         answer |-> IF r.ok THEN <<r.byte>> ELSE <<>>]

\* EcFlash::size: primary && get_param(0xE5) == Ok(0x80)
EcFlash_size(stage, byte) ==
    LET r == EcFlash_get_param(ParamSize, stage, byte)
    IN  [v |-> IF primary /\ r.ok /\ r.byte = SizeExtended
               THEN 128 * 1024 ELSE 64 * 1024,
         timedOut |-> ~r.ok, sent |-> r.sent,
         answer |-> IF r.ok THEN <<r.byte>> ELSE <<>>]

\* the outcomes of one invocation of the query q
QueryOutcomes(q) ==
    CASE q = "project" ->
           {EcFlash_project(reply, c) : reply \in Replies, c \in BOOLEAN}
      [] q = "version" ->
           {EcFlash_version(reply, c) : reply \in Replies, c \in BOOLEAN}
      [] q = "size" ->
           {EcFlash_size(stage, byte) : stage \in Stages, byte \in ParamAnswers}

\* the values main validates, in order
Validating == {"project", "version", "size"}

AfterValue(q) ==
    CASE q = "project" -> "version"
      [] q = "version" -> "size"
      [] q = "size" -> "exit0"

\* what main prints of an accepted value
Shown(q, v) == IF q = "size" THEN v \div 1024 ELSE v

\* validate: let a = f();
ValidateFirst ==
    /\ rpc \in Validating /\ attempt < Attempts /\ pending = <<>>
    /\ \E o \in QueryOutcomes(rpc) :
         /\ pending' = <<o>>
         /\ lastCall' = <<[q |-> rpc, o |-> o]>>
    /\ calls' = calls + 1
    /\ UNCHANGED <<rpc, attempt, disagreements, lines, validated>>
    /\ UNCHANGED <<coreVars, fileVars, ispVars, chanVars>>

\* validate: let b = f(); a == b: return Some(a); main prints it and goes on
ValidateAgree ==
    /\ rpc \in Validating /\ pending # <<>>
    /\ \E o \in QueryOutcomes(rpc) :
         /\ o.v = pending[1].v
         /\ lastCall' = <<[q |-> rpc, o |-> o]>>
         /\ validated' = Append(validated,
                [q |-> rpc, some |-> TRUE, a |-> pending[1].v, b |-> o.v,
                 calls |-> calls + 1, disagreements |-> disagreements,
                 timedOut |-> pending[1].timedOut])
    /\ lines' = Append(lines, [label |-> rpc, v |-> Shown(rpc, pending[1].v)])
    /\ rpc' = AfterValue(rpc)
    /\ attempt' = 0
    /\ pending' = <<>>
    /\ calls' = 0
    /\ disagreements' = 0
    /\ UNCHANGED <<coreVars, fileVars, ispVars, chanVars>>

\* validate: let b = f(); a != b: "Attempt i: a != b", next attempt
ValidateDisagree ==
    /\ rpc \in Validating /\ pending # <<>>
    /\ \E o \in QueryOutcomes(rpc) :
         /\ o.v # pending[1].v
         /\ lastCall' = <<[q |-> rpc, o |-> o]>>
    /\ disagreements' = disagreements + 1
    /\ attempt' = attempt + 1
    /\ pending' = <<>>
    /\ calls' = calls + 1
    /\ UNCHANGED <<rpc, lines, validated>>
    /\ UNCHANGED <<coreVars, fileVars, ispVars, chanVars>>

\* faulty variant: validate gives up one attempt early
ValidateNoneEarly ==
    /\ rpc \in Validating /\ attempt = Attempts - 1 /\ pending = <<>>
    /\ validated' = Append(validated,
           [q |-> rpc, some |-> FALSE, a |-> <<>>, b |-> <<>>,
            calls |-> calls, disagreements |-> disagreements,
            timedOut |-> FALSE])
    /\ rpc' = "exit1"
    /\ UNCHANGED <<attempt, pending, calls, disagreements, lines, lastCall>>
    /\ UNCHANGED <<coreVars, fileVars, ispVars, chanVars>>

\* validate: the loop ends, None; main: "Failed to read EC ..", exit(1)
ValidateNone ==
    /\ rpc \in Validating /\ attempt = Attempts /\ pending = <<>>
    /\ validated' = Append(validated,
           [q |-> rpc, some |-> FALSE, a |-> <<>>, b |-> <<>>,
            calls |-> calls, disagreements |-> disagreements,
            timedOut |-> FALSE])
    /\ rpc' = "exit1"
    /\ UNCHANGED <<attempt, pending, calls, disagreements, lines, lastCall>>
    /\ UNCHANGED <<coreVars, fileVars, ispVars, chanVars>>

\* main with one live EC on its command line: "EC Flash", then the values
InitReport ==
    /\ CoreIdle
    /\ ChanIdle
    /\ FileIdle
    /\ IspIdle
    /\ rpc = "project"
    /\ attempt = 0
    /\ pending = <<>>
    /\ calls = 0
    /\ disagreements = 0
    /\ lines = <<>>
    /\ validated = <<>>
    /\ lastCall = <<>>

NextReport ==
    \/ ValidateFirst
    \/ ValidateAgree
    \/ ValidateDisagree
    \/ ValidateNone

\* the reporting driver on a live EC
SpecReport == InitReport /\ [][NextReport]_vars

\* --- claims about the reporting driver and the live queries (SpecReport)
\* C18: size() on the primary channel returns 131072 exactly when
\* get_param(0xE5) was sent whole and the EC answered 0x80, and 65536 for
\* every other answer or a timeout; the result is one of the two, a whole
\* number of 64 KiB regions.
C18_SizeFromParam ==
    (lastCall # <<>> /\ lastCall[1].q = "size")
    => LET o == lastCall[1].o
       IN  /\ o.v \in {65536, 131072}
           /\ o.v % RegionSpan = 0
           /\ (o.v = 131072) <=> (o.answer = <<SizeExtended>>)
           /\ o.answer # <<>> => o.sent = <<EcGetParam, ParamSize>>

\* C18's cases: the EC answered 0x80, and the EC answered 0x81
C18_Witness ==
    /\ lastCall # <<>> /\ lastCall[1].q = "size"
    /\ lastCall[1].o.answer = <<SizeExtended>>
    /\ lastCall[1].o.v = 131072

C18_WitnessOtherAnswer ==
    /\ lastCall # <<>> /\ lastCall[1].q = "size"
    /\ lastCall[1].o.answer = <<SizeExtended + 1>>
    /\ lastCall[1].o.v = 65536

\* C19: validate with 8 attempts queries in pairs; it returns the first of
\* the first pair that is equal, right after that pair; it returns None,
\* and the process exits with status 1, exactly when 8 pairs disagreed;
\* it never queries more than 16 times.
C19_ValidatePairs ==
    /\ calls = 2 * attempt + Len(pending)
    /\ disagreements = attempt
    /\ calls <= 16
    /\ \A k \in 1..Len(validated) :
          LET r == validated[k]
          IN  /\ r.calls <= 16
              /\ r.some => /\ r.a = r.b
                           /\ r.disagreements < Attempts
                           /\ r.calls = 2 * (r.disagreements + 1)
              /\ ~r.some => /\ r.disagreements = 8
                            /\ r.calls = 16
                            /\ k = Len(validated)
    /\ (rpc = "exit1")
          <=> (validated # <<>> /\ ~validated[Len(validated)].some)
    /\ Len(lines) = Cardinality({k \in 1..Len(validated) : validated[k].some})
    /\ \A k \in 1..Len(lines) :
          lines[k] = [label |-> validated[k].q,
                      v |-> Shown(validated[k].q, validated[k].a)]

\* C19's cases: a value accepted at the third pair; eight pairs disagreed
C19_Witness ==
    /\ validated # <<>>
    /\ validated[1].some
    /\ validated[1].disagreements = 2
    /\ validated[1].calls = 6

C19_WitnessNone ==
    /\ rpc = "exit1"
    /\ validated[Len(validated)].calls = 16

\* C20 as claimed: a query that timed out on the channel is never accepted
\* as a value; the process exits with status 1 instead.
C20_TimeoutNeverAccepted ==
    \A k \in 1..Len(validated) :
        validated[k].some => ~validated[k].timedOut

\* ==================================== src/examples/isp.rs: SpiBus, SpiRom
\* SPI chip selected / deselected through INDAR1
IndarData == 253
IndarControl == 254
\* SpiRom::erase_sector returns Ok(1024)
ErasedBytes == 1024

\* the one element of a set of one: Only({e(v) : v \in {d}}) is e(d) with
\* d worked out once
Only(S) == CHOOSE v \in S : TRUE

\* The running state of a SpiRom operation: x.chip and x.flash behind the
\* port, x.data (SpiBus.data), x.log (the port accesses made), x.hung (a
\* status poll that cannot end)

\* a byte of a bus write reaches the flash: the first byte after a deselect
\* is the command, the others are its data.  A flash with a fault keeps its
\* contents on erase or on program.
PortToChip(x0, b) ==
    Only({IF ~x.chip.sel
          THEN [x EXCEPT !.chip = [SpiCommand(x.chip, b) EXCEPT !.sel = TRUE]]
          ELSE Only({[x EXCEPT
                        !.chip = r.chip,
                        !.flash =
                            IF \/ x.chip.fault = "erase"
                                  /\ x.chip.cmd = SpiErase1K
                               \/ x.chip.fault = "program"
                                  /\ x.chip.cmd = SpiAai
                            THEN x.flash
                            ELSE IF /\ x.chip.fault = "disturb"
                                    /\ x.chip.cmd = SpiAai
                                    /\ r.flash # x.flash
                            THEN [r.flash EXCEPT ![Len(r.flash)] =
                                                    BitAnd(@, 254)]
                            ELSE r.flash] :
                     r \in {SpiData(x.chip, x.flash, b)}}) :
          x \in {x0}})

RECURSIVE PortWrite(_, _)
\* Smfi::flash_write(bytes) in data mode
PortWrite(x0, bytes) ==
    IF bytes = <<>> THEN x0
    ELSE PortWrite(PortToChip(x0, Head(bytes)), Tail(bytes))

\* A call of the port (Smfi::flash_*) returns Ok or Err.  x.fuse counts the
\* calls that still return Ok before one returns Err (-1: every call
\* returns Ok, as Pmc's do); after that Err a `sticky` transport fails
\* every later call, another one none.  x.err: an Err is being returned
\* through `?`, and the calls after it in the operation are not made.
PortFails(x) == x.fuse = 0

\* the call returned Ok and logged `entry`
PortOk(x, entry) ==
    [x EXCEPT !.fuse = IF @ > 0 THEN @ - 1 ELSE @,
              !.log = Append(@, entry)]

\* the call returned Err
PortErr(x, what) ==
    [x EXCEPT !.err = TRUE,
              !.fuse = IF x.sticky THEN 0 ELSE -1,
              !.log = Append(@, [k |-> "failed", v |-> what])]

\* `if !self.data { self.port.flash_indar1(0xFD)?; self.data = true; }`
BusSelect(x0) ==
    Only({IF x.data THEN x
          ELSE IF PortFails(x) THEN PortErr(x, "indar1")
          ELSE [PortOk(x, [k |-> "indar1", v |-> IndarData])
                  EXCEPT !.data = TRUE] :
          x \in {x0}})

\* SpiBus::reset
BusReset(x0) ==
    Only({IF x.hung \/ x.err THEN x
          ELSE IF x.data /\ PortFails(x) THEN PortErr(x, "indar1")
          ELSE Only({
              IF PortFails(y) THEN PortErr(y, "write")
              ELSE [PortOk(y, [k |-> "write", v |-> <<0>>])
                      EXCEPT !.chip = [y.chip EXCEPT !.cmd = 0, !.args = <<>>,
                                                     !.sel = FALSE]] :
              y \in {IF x.data
                     THEN [PortOk(x, [k |-> "indar1", v |-> IndarControl])
                             EXCEPT !.data = FALSE]
                     ELSE x}}) :
          x \in {x0}})

\* SpiBus::write
BusWrite(x0, bytes) ==
    Only({IF x.hung \/ x.err THEN x
          ELSE Only({
              IF y.err THEN y
              ELSE IF PortFails(y) THEN PortErr(y, "write")
              ELSE PortOk(PortWrite(y, bytes), [k |-> "write", v |-> bytes]) :
              y \in {BusSelect(x)}}) :
          x \in {x0}})

RECURSIVE PortRead(_, _, _)
\* Smfi::flash_read of n bytes in data mode: the state after, and the bytes
PortRead(x0, n, got0) ==
    Only({IF n = 0 THEN [x |-> x, bytes |-> got]
          ELSE Only({PortRead([x EXCEPT !.chip = r.chip], n - 1,
                              Append(got, r.out)) :
                     r \in {SpiRead(x.chip, x.flash)}}) :
          x \in {x0}, got \in {got0}})

\* SpiBus::read
BusRead(x0, n) ==
    Only({IF x.hung \/ x.err THEN [x |-> x, bytes |-> <<>>]
          ELSE Only({
              IF y.err THEN [x |-> y, bytes |-> <<>>]
              ELSE IF PortFails(y)
              THEN [x |-> PortErr(y, "read"), bytes |-> <<>>]
              ELSE Only({[x |-> PortOk(r.x, [k |-> "read", v |-> n]),
                          bytes |-> r.bytes] :
                         r \in {PortRead(y, n, <<>>)}}) :
              y \in {BusSelect(x)}}) :
          x \in {x0}})

\* SpiRom::status
RomStatus(x) ==
    Only({[x |-> r.x, status |-> IF r.x.err THEN 0 ELSE r.bytes[1]] :
          r \in {BusRead(BusWrite(BusReset(x), <<SpiRdsr>>), 1)}})

\* `while self.status()? & mask != want {}`: the flash finishes what it is
\* doing between two polls; a status that still differs then never changes
StatusPoll(x0, mask, want) ==
    Only({IF x.hung \/ x.err THEN x
          ELSE Only({
              IF first.x.err \/ BitAnd(first.status, mask) = want
              THEN first.x
              ELSE Only({IF \/ second.x.err
                            \/ BitAnd(second.status, mask) = want
                         THEN second.x
                         ELSE [second.x EXCEPT !.hung = TRUE] :
                         second \in {RomStatus([first.x EXCEPT
                                                  !.chip.busy = FALSE])}}) :
              first \in {RomStatus(x)}}) :
          x \in {x0}})

\* SpiRom::write_disable
RomWriteDisable(x0) ==
    Only({IF x.hung \/ x.err THEN x
          ELSE StatusPoll(BusWrite(BusReset(x), <<SpiWrdi>>), 3, 0) :
          x \in {x0}})

\* SpiRom::write_enable
RomWriteEnable(x0) ==
    Only({IF x.hung \/ x.err THEN x
          ELSE StatusPoll(BusWrite(BusReset(x), <<SpiWren>>), 3, 2) :
          x \in {x0}})

\* (address >> 16) as u8, (address >> 8) as u8, address as u8
AddressBytes(address) ==
    <<AsU8(address \div 65536), AsU8(address \div 256), AsU8(address)>>

\* 1 << 24: the first address with a bit of the top byte set
AddressLimit == 16777216

\* (address & 0xFF00_0000) > 0, address a u32
Exceeds24(address) == address \div AddressLimit > 0

\* the result of a SpiRom operation: the state after, Ok(n) or the error
RomResult(x0, res, n, bytes) ==
    Only({[x |-> x,
           res |-> IF x.hung THEN "hang" ELSE IF x.err THEN "transport"
                   ELSE res,
           n |-> IF x.hung \/ x.err THEN 0 ELSE n,
           bytes |-> bytes] :
          x \in {x0}})

\* faulty variant: the address is checked after the write-enable
erase_sector_late_check(x, address) ==
    IF Exceeds24(address)
    THEN RomResult(RomWriteEnable(x), "address", 0, <<>>)
    ELSE RomResult(RomWriteDisable(StatusPoll(
             BusWrite(BusReset(RomWriteEnable(x)),
                      <<SpiErase1K>> \o AddressBytes(address)),
             1, 0)), "ok", ErasedBytes, <<>>)

\* SpiRom::erase_sector
erase_sector_rom(x, address) ==
    IF Exceeds24(address) THEN RomResult(x, "address", 0, <<>>)
    ELSE RomResult(RomWriteDisable(StatusPoll(
             Only({IF we.hung THEN we
                   ELSE BusWrite(BusReset(we),
                                 <<SpiErase1K>> \o AddressBytes(address)) :
                   we \in {RomWriteEnable(x)}}),
             1, 0)), "ok", ErasedBytes, <<>>)

\* SpiRom::read_at, data.len() = n
read_at(x, address, n) ==
    IF Exceeds24(address) THEN RomResult(x, "address", 0, <<>>)
    ELSE Only({RomResult(r.x, "ok", n, r.bytes) :
               r \in {BusRead(BusWrite(BusReset(x),
                          <<SpiFastRead>> \o AddressBytes(address) \o <<0>>),
                          n)}})

RECURSIVE WriteWords(_, _, _, _)
\* write_at's `for (i, word) in data.chunks_exact(2).enumerate()`
WriteWords(x0, address, data_, i) ==
    Only({IF 2 * i + 2 > Len(data_) \/ x.hung \/ x.err THEN x
          ELSE LET word == <<data_[2 * i + 1], data_[2 * i + 2]>>
                   sent == BusWrite(BusReset(x),
                              IF i = 0
                              THEN <<SpiAai>> \o AddressBytes(address) \o word
                              ELSE <<SpiAai>> \o word)
               IN  WriteWords(StatusPoll(sent, 1, 0), address, data_, i + 1) :
          x \in {x0}})

\* faulty variant: the length is not checked
write_at_any_length(x, address, data_) ==
    IF Exceeds24(address) THEN RomResult(x, "address", 0, <<>>)
    ELSE RomResult(RomWriteDisable(
                       WriteWords(RomWriteEnable(x), address, data_, 0)),
                   "ok", Len(data_), <<>>)

\* SpiRom::write_at
write_at(x, address, data_) ==
    IF Exceeds24(address) THEN RomResult(x, "address", 0, <<>>)
    ELSE IF Len(data_) % 2 # 0 THEN RomResult(x, "length", 0, <<>>)
    ELSE RomResult(RomWriteDisable(
                       WriteWords(RomWriteEnable(x), address, data_, 0)),
                   "ok", Len(data_), <<>>)

\* ------------------------------------ a client of SpiRom (examples/isp.rs)
\* SpiRom operations a client makes
MaxRomCalls == 2
\* longest data a client hands to read_at and write_at
MaxRomData == 3

\* the flash behind the port bus: rom_size bytes, two 64 KiB regions
RomBytes == 2 * RegionBytes

\* the flash is idle and deselected (SpiBus::new ends with reset)
SpiChipInit(fault) ==
    [wel |-> FALSE, busy |-> FALSE, aai |-> FALSE, aaiPtr |-> 0, rdPtr |-> 0,
     cmd |-> 0, args |-> <<>>, sel |-> FALSE, fault |-> fault]

\* u32 addresses a client passes: sectors of both regions, and addresses
\* with bits of the top byte set
RomAddresses ==
    {0, SectorBytes, RegionSpan, AddressLimit, AddressLimit + SectorBytes,
     127 * AddressLimit + RegionSpan}

\* a port none of whose calls fails
SoundPort(internal) ==
    [internal |-> internal, phase |-> "none", fuse |-> -1, sticky |-> FALSE]

\* the operation starts on the state the last one left
RomEnter ==
    [chip |-> spiChip, flash |-> spiFlash, data |-> busData, log |-> <<>>,
     hung |-> FALSE, fuse |-> IF port.phase = ipc THEN port.fuse ELSE -1,
     sticky |-> port.sticky, err |-> FALSE]

\* the operation has returned r: what it left behind the port, and a record
\* of the call
RomLeave(called, address, len, r) ==
    /\ spiFlash' = r.x.flash
    /\ spiChip' = r.x.chip
    /\ busData' = r.x.data
    /\ bus' = r.x.log
    /\ port' = IF port.phase = ipc THEN [port EXCEPT !.fuse = r.x.fuse]
               ELSE port
    /\ romCall' = [op |-> called, address |-> address, len |-> len,
                   res |-> r.res, n |-> r.n, bytes |-> r.bytes,
                   before |-> spiFlash, k |-> romCall.k + 1]

RomEraseSector ==
    /\ ipc = "rom"
    /\ romCall.k < MaxRomCalls
    /\ \E address \in RomAddresses :
         \E r \in {erase_sector_rom(RomEnter, address)} :
           RomLeave("erase_sector", address, 0, r)
    /\ UNCHANGED <<ipc, fwFile, firmware, rom, ispRes, pmc, ispErr>>
    /\ UNCHANGED <<coreVars, fileVars, reportVars, chanVars>>

RomReadAt ==
    /\ ipc = "rom"
    /\ romCall.k < MaxRomCalls
    /\ \E address \in RomAddresses, n \in 0..MaxRomData :
         \E r \in {read_at(RomEnter, address, n)} :
           RomLeave("read_at", address, n, r)
    /\ UNCHANGED <<ipc, fwFile, firmware, rom, ispRes, pmc, ispErr>>
    /\ UNCHANGED <<coreVars, fileVars, reportVars, chanVars>>

RomWriteAt ==
    /\ ipc = "rom"
    /\ romCall.k < MaxRomCalls
    /\ \E address \in RomAddresses, n \in 0..MaxRomData :
         \E r \in {write_at(RomEnter, address, ImageOfLen(n))} :
           RomLeave("write_at", address, n, r)
    /\ UNCHANGED <<ipc, fwFile, firmware, rom, ispRes, pmc, ispErr>>
    /\ UNCHANGED <<coreVars, fileVars, reportVars, chanVars>>

InitRom ==
    /\ CoreIdle
    /\ ChanIdle
    /\ FileIdle
    /\ ReportIdle
    /\ spiFlash \in {Blank(RomBytes), [i \in 1..RomBytes |-> 170]}
    /\ spiChip = SpiChipInit("none")
    /\ busData = FALSE
    /\ bus = <<>>
    /\ ipc = "rom"
    /\ fwFile = <<>>
    /\ firmware = <<>>
    /\ rom = <<>>
    /\ ispRes = "none"
    /\ romCall = [op |-> "none", address |-> 0, len |-> 0, res |-> "none",
                  n |-> 0, bytes |-> <<>>, before |-> spiFlash, k |-> 0]
    /\ port = SoundPort(FALSE)
    /\ pmc = <<>>
    /\ ispErr = <<>>

NextRom ==
    \/ RomEraseSector
    \/ RomReadAt
    \/ RomWriteAt

SpecRom == InitRom /\ [][NextRom]_vars

\* C12: an address with a bit of the top byte set makes erase_sector,
\* read_at and write_at return the invalid-address error with no access to
\* the port bus (no reset, write-enable, command byte or status read), and
\* the flash keeps its contents
C12_HighAddressRejectedUntouched ==
    (romCall.op \in {"erase_sector", "read_at", "write_at"}
     /\ Exceeds24(romCall.address))
    => /\ romCall.res = "address"
       /\ bus = <<>>
       /\ spiFlash = romCall.before

\* erase_sector is refused after an earlier write_at has programmed the flash
C12_Witness ==
    /\ romCall.op = "erase_sector"
    /\ romCall.address = AddressLimit + SectorBytes
    /\ romCall.k = 2
    /\ romCall.res = "address"
    /\ spiFlash[1] = 0

C12_WitnessReadAt ==
    /\ romCall.op = "read_at"
    /\ romCall.address = 127 * AddressLimit + RegionSpan
    /\ romCall.len = 2
    /\ romCall.res = "address"

C12_WitnessWriteAt ==
    /\ romCall.op = "write_at"
    /\ romCall.address = AddressLimit
    /\ romCall.len = 2
    /\ romCall.res = "address"

\* C13: write_at with a 24-bit address and data of odd length returns the
\* invalid-length error before any access to the port bus (no write-enable,
\* no AAI command), and the flash keeps its contents
C13_OddLengthRejectedUntouched ==
    (romCall.op = "write_at" /\ ~Exceeds24(romCall.address)
     /\ romCall.len % 2 = 1)
    => /\ romCall.res = "length"
       /\ bus = <<>>
       /\ spiFlash = romCall.before

\* three bytes for the second sector are refused after an earlier write_at
\* has programmed the flash
C13_Witness ==
    /\ romCall.op = "write_at"
    /\ romCall.address = SectorBytes
    /\ romCall.len = 3
    /\ romCall.k = 2
    /\ romCall.res = "length"
    /\ spiFlash[1] = 0

\* the operations do act on valid input: a sector erase empties its sector,
\* a write programs its words and a read returns them
C13_WitnessWritten ==
    /\ romCall.op = "write_at"
    /\ romCall.address = SectorBytes
    /\ romCall.len = 2
    /\ romCall.res = "ok"
    /\ romCall.before = Blank(RomBytes)
    /\ spiFlash = [Blank(RomBytes) EXCEPT ![BlockBytes + 1] = 0,
                                          ![BlockBytes + 2] = 1]

\* ------------------------------------- isp and isp_inner (examples/isp.rs)
\* 0xFF bytes a firmware file ends with, at most
MaxTrail == 2
\* bytes a firmware file is longer than the flash, at most
MaxOver == 1

\* firmware files: n bytes that are not 0xFF (the first one 0xFF with
\* `hole`), then 0xFF bytes
IspFiles ==
    {[i \in 1..n |-> IF hole /\ i = 1 THEN 255 ELSE ImageByte(i)] \o Blank(t) :
        n \in (0..3) \cup {RomBytes - 1, RomBytes, RomBytes + MaxOver},
        hole \in BOOLEAN, t \in 0..MaxTrail}

RECURSIVE StripFF(_)
\* `while firmware.last() == Some(&0xFF) { firmware.pop(); }`
StripFF(f) ==
    IF f # <<>> /\ f[Len(f)] = 255 THEN StripFF(SubSeq(f, 1, Len(f) - 1))
    ELSE f

\* faulty variant: the length is left as the file has it
FirmwareUnpadded(f) == StripFF(f)

\* isp: the firmware handed to the programmer, trailing 0xFF stripped, then
\* `while firmware.len() % 2 != 0 { firmware.push(0xFF); }`
FirmwareOf(f) ==
    LET cut == StripFF(f)
    IN  IF Len(cut) % 2 # 0 THEN Append(cut, 255) ELSE cut

\* firmware.get(i).unwrap_or(&0xFF), i counted from 1
GetOrFF(s, i) == IF i <= Len(s) THEN s[i] ELSE 255

\* `for i in 0..rom.len()`: no rom[i] differs from the firmware's byte
RomMatches(r, fw) == \A i \in 1..Len(r) : r[i] = GetOrFF(fw, i)

\* the address of the k-th 1 KiB sector the scaled flash has
SectorAddress(k) ==
    (k \div RegionBlocks) * RegionSpan + (k % RegionBlocks) * SectorBytes

RECURSIVE EraseEverySector(_, _, _)
RECURSIVE EraseSectors(_, _, _)
\* faulty variant: sectors that read back blank are erased too
EraseEverySector(x0, r, k) ==
    Only({IF k * BlockBytes >= Len(r) \/ x.hung \/ x.err THEN x
          ELSE EraseEverySector(erase_sector_rom(x, SectorAddress(k)).x, r,
                                k + 1) :
          x \in {x0}})

\* `while address < rom_size`: sectors that read back blank are skipped,
\* the others erased
EraseSectors(x0, r, k) ==
    Only({IF k * BlockBytes >= Len(r) \/ x.hung \/ x.err THEN x
          ELSE IF AllFF(SubSeq(r, k * BlockBytes + 1, (k + 1) * BlockBytes))
          THEN EraseSectors(x, r, k + 1)
          ELSE EraseSectors(erase_sector_rom(x, SectorAddress(k)).x, r, k + 1) :
          x \in {x0}})

\* PMC channels of the internal path: Pmc::new(0x62), Pmc::new(0x6A)
Pmc1 == 98
Pmc3 == 106
\* the command that enters scratch ROM on the first channel and leaves it
\* on the second, and the EC's acknowledgement of the entry
ScratchRom == 236
ScratchAck == 118
\* what an EC that does not enter scratch ROM answers
ScratchNak == ScratchAck - 1

\* Transport failures of an external port: in one phase of isp_inner the
\* call that returns Err comes after FuseStep * k calls that returned Ok,
\* k up to MaxFuse
FuseStep == 5
MaxFuse == 2

Fuses == {FuseStep * k : k \in 0..MaxFuse}

\* the phases of isp_inner: the first read, the erase, the program, and
\* the exit after a verification
IspPhases == {"open", "compare", "erased", "programmed"}

\* the firmware files a failing port is tried with: no 0xFF byte, one word
\* or the whole flash
PlainFiles ==
    {f \in IspFiles :
       Len(f) \in {2, RomBytes} /\ \A i \in 1..Len(f) : f[i] # 255}

\* a value is dropped: the log notes whose Drop runs, with the `?` that led
\* here over
Dropping(x, who) ==
    [x EXCEPT !.err = FALSE, !.log = Append(@, [k |-> "drop", v |-> who])]

\* faulty variant: the bus is reset before write-disable is attempted
IspDropBusFirst(r0) ==
    Only({[r EXCEPT
             !.x = [Only({[y EXCEPT !.err = FALSE] :
                          y \in {RomWriteDisable(Dropping(
                                     BusReset(Dropping(r.x, "SpiBus")),
                                     "SpiRom"))}})
                      EXCEPT !.err = FALSE]] :
          r \in {r0}})

\* leaving isp_inner drops `spi` (Drop for SpiRom: write_disable) and then
\* `spi_bus` (Drop for SpiBus: reset), each result thrown away by `let _ =`.
\* A write_disable that polls for ever never lets isp_inner return.
IspDrop(r0) ==
    Only({Only({[r EXCEPT
                   !.x = [y EXCEPT !.err = FALSE],
                   !.res = IF y.hung THEN "hang" ELSE r.res] :
                y \in {BusReset(Dropping(
                           RomWriteDisable(Dropping(r.x, "SpiRom")),
                           "SpiBus"))}}) :
          r \in {r0}})

\* SpiBus::new: flash_address(0x7FFF_FE00)?, then `spi.reset()?` on the
\* SpiBus just built, which is dropped if that reset fails
SpiBusNew(x0) ==
    Only({IF PortFails(x) THEN PortErr(x, "address")
          ELSE Only({IF y.err
                     THEN [BusReset(Dropping(y, "SpiBus")) EXCEPT !.err = TRUE]
                     ELSE y :
                     y \in {BusReset(PortOk([x EXCEPT !.data = FALSE],
                                [k |-> "address", v |-> 2147483136]))}}) :
          x \in {x0}})

\* the first index (from 1) at which rom differs from the firmware padded
\* with 0xFF, or 0
FirstMismatch(r, fw) ==
    IF RomMatches(r, fw) THEN 0
    ELSE CHOOSE i \in 1..Len(r) :
           /\ r[i] # GetOrFF(fw, i)
           /\ \A j \in 1..(i - 1) : r[j] = GetOrFF(fw, j)

\* the first index (from 1) of rom that is not 0xFF, or 0
FirstNotFF(r) ==
    IF AllFF(r) THEN 0
    ELSE CHOOSE i \in 1..Len(r) :
           r[i] # 255 /\ \A j \in 1..(i - 1) : r[j] = 255

NoErr == [offset |-> -1, actual |-> -1, expected |-> -1]

\* isp: the file is read and made the firmware
IspLoad ==
    /\ ipc = "boot"
    /\ firmware' = FirmwareOf(fwFile)
    /\ ipc' = IF port.internal THEN "scratch" ELSE "open"
    /\ UNCHANGED <<spiFlash, spiChip, busData, bus, fwFile, rom, ispRes,
                   romCall, port, pmc, ispErr>>
    /\ UNCHANGED <<coreVars, fileVars, reportVars, chanVars>>

\* isp, internal: `pmc1.command(0xEC); if pmc1.read() == 0x76 { .. } else
\* { panic!("Failed to enter scratch ROM") }`
IspEnterScratch ==
    /\ ipc = "scratch"
    /\ \E ack \in {ScratchAck, ScratchNak} :
         /\ pmc' = pmc \o <<[chan |-> Pmc1, k |-> "command", v |-> ScratchRom],
                            [chan |-> Pmc1, k |-> "read", v |-> ack]>>
         /\ ipc' = IF ack = ScratchAck THEN "open" ELSE "aborted"
    /\ UNCHANGED <<spiFlash, spiChip, busData, bus, fwFile, firmware, rom,
                   ispRes, romCall, port, ispErr>>
    /\ UNCHANGED <<coreVars, fileVars, reportVars, chanVars>>

\* isp_inner: SpiBus::new and SpiRom::new, then the whole flash is read and
\* saved
IspBackup ==
    /\ ipc = "open"
    /\ \E b \in {SpiBusNew(RomEnter)} :
         \E r \in {IF b.err THEN RomResult(b, "ok", 0, <<>>)
                   ELSE Only({IF got.res = "ok" THEN got ELSE IspDrop(got) :
                              got \in {read_at(b, 0, RomBytes)}})} :
           /\ RomLeave("read_at", 0, RomBytes, r)
           /\ rom' = IF r.res = "ok" THEN r.bytes ELSE rom
           /\ ipc' = IF r.res = "ok" THEN "compare" ELSE "done"
           /\ ispRes' = IF r.res = "ok" THEN ispRes ELSE r.res
    /\ UNCHANGED <<fwFile, firmware, pmc, ispErr>>
    /\ UNCHANGED <<coreVars, fileVars, reportVars, chanVars>>

\* the flash already holds the firmware: Ok(())
IspMatches ==
    /\ ipc = "compare"
    /\ RomMatches(rom, firmware)
    /\ \E r \in {IspDrop(RomResult(RomEnter, "matches", 0, <<>>))} :
         /\ RomLeave("drop", 0, 0, r)
         /\ ispRes' = r.res
    /\ ipc' = "done"
    /\ UNCHANGED <<fwFile, firmware, rom, pmc, ispErr>>
    /\ UNCHANGED <<coreVars, fileVars, reportVars, chanVars>>

\* sector erase, then the whole flash is read again
IspErase ==
    /\ ipc = "compare"
    /\ ~RomMatches(rom, firmware)
    /\ \E got \in {read_at(EraseSectors(RomEnter, rom, 0), 0, RomBytes)} :
         \E r \in {IF got.res = "ok" THEN got ELSE IspDrop(got)} :
           /\ RomLeave("read_at", 0, RomBytes, r)
           /\ rom' = IF r.res = "ok" THEN r.bytes ELSE rom
           /\ ipc' = IF r.res = "ok" THEN "erased" ELSE "done"
           /\ ispRes' = IF r.res = "ok" THEN ispRes ELSE r.res
    /\ UNCHANGED <<fwFile, firmware, pmc, ispErr>>
    /\ UNCHANGED <<coreVars, fileVars, reportVars, chanVars>>

\* verify chip erase: a byte that is not 0xFF is "Failed to erase: {i} is
\* {rom[i]} instead of FF"
IspEraseFailed ==
    /\ ipc = "erased"
    /\ ~AllFF(rom)
    /\ \E r \in {IspDrop(RomResult(RomEnter, "Failed to erase", 0, <<>>))} :
         /\ RomLeave("drop", 0, 0, r)
         /\ ispRes' = r.res
    /\ ispErr' = [offset |-> FirstNotFF(rom) - 1,
                  actual |-> rom[FirstNotFF(rom)], expected |-> 255]
    /\ ipc' = "done"
    /\ UNCHANGED <<fwFile, firmware, rom, pmc>>
    /\ UNCHANGED <<coreVars, fileVars, reportVars, chanVars>>

\* spi.write_at(0, firmware)?, then the whole flash is read again
IspProgram ==
    /\ ipc = "erased"
    /\ AllFF(rom)
    /\ \E w \in {write_at(RomEnter, 0, firmware)} :
         \E got \in {IF w.res = "ok" THEN read_at(w.x, 0, RomBytes) ELSE w} :
           \E r \in {IF got.res = "ok" THEN got ELSE IspDrop(got)} :
             /\ RomLeave(IF w.res = "ok" THEN "read_at" ELSE "write_at", 0,
                         IF w.res = "ok" THEN RomBytes ELSE Len(firmware), r)
             /\ rom' = IF r.res = "ok" THEN r.bytes ELSE rom
             /\ ipc' = IF r.res = "ok" THEN "programmed" ELSE "done"
             /\ ispRes' = IF r.res = "ok" THEN ispRes ELSE r.res
    /\ UNCHANGED <<fwFile, firmware, pmc, ispErr>>
    /\ UNCHANGED <<coreVars, fileVars, reportVars, chanVars>>

\* verify program: at the first byte that differs from
\* firmware.get(i).unwrap_or(&0xFF) the error is built by
\* format!("..", i, rom[i], firmware[i]), and firmware[i] panics when i is
\* not below firmware.len()
VerifyProgram(r, fw) ==
    LET i == FirstMismatch(r, fw)
    IN  IF i = 0 THEN [res |-> "programmed", err |-> NoErr]
        ELSE IF i > Len(fw) THEN [res |-> "panic", err |-> NoErr]
        ELSE [res |-> "Failed to program",
              err |-> [offset |-> i - 1, actual |-> r[i],
                       expected |-> fw[i]]]

\* verify program, and isp_inner returns or unwinds: `spi` and `spi_bus`
\* are dropped either way
IspVerify ==
    /\ ipc = "programmed"
    /\ \E v \in {VerifyProgram(rom, firmware)} :
         /\ \E r \in {IspDrop(RomResult(RomEnter, v.res, 0, <<>>))} :
              /\ RomLeave("drop", 0, 0, r)
              /\ ispRes' = r.res
         /\ ispErr' = v.err
    /\ ipc' = "done"
    /\ UNCHANGED <<fwFile, firmware, rom, pmc>>
    /\ UNCHANGED <<coreVars, fileVars, reportVars, chanVars>>

\* isp, internal: after isp_inner has returned `res`, `pmc3.command(0xEC)`,
\* then `match res`
IspLeaveScratch ==
    /\ ipc = "done"
    /\ port.internal
    /\ ispRes \notin {"panic", "hang"}
    /\ pmc' = Append(pmc, [chan |-> Pmc3, k |-> "command", v |-> ScratchRom])
    /\ ipc' = "returned"
    /\ UNCHANGED <<spiFlash, spiChip, busData, bus, fwFile, firmware, rom,
                   ispRes, romCall, port, ispErr>>
    /\ UNCHANGED <<coreVars, fileVars, reportVars, chanVars>>

\* isp, external: `isp_inner(&mut port, &firmware)` is the value of isp
IspReturn ==
    /\ ipc = "done"
    /\ ~port.internal
    /\ ispRes \notin {"panic", "hang"}
    /\ ipc' = "returned"
    /\ UNCHANGED <<spiFlash, spiChip, busData, bus, fwFile, firmware, rom,
                   ispRes, romCall, port, pmc, ispErr>>
    /\ UNCHANGED <<coreVars, fileVars, reportVars, chanVars>>

\* a panic of isp_inner unwinds through isp: nothing of isp after the call
\* runs
IspUnwind ==
    /\ ipc = "done"
    /\ ispRes = "panic"
    /\ ipc' = "aborted"
    /\ UNCHANGED <<spiFlash, spiChip, busData, bus, fwFile, firmware, rom,
                   ispRes, romCall, port, pmc, ispErr>>
    /\ UNCHANGED <<coreVars, fileVars, reportVars, chanVars>>

\* flash faults: a flash that keeps its contents on erase, or on program,
\* and one whose last cell is disturbed by programming
FlashFaults == {"none", "erase", "program", "disturb"}

InitIsp ==
    /\ CoreIdle
    /\ ChanIdle
    /\ FileIdle
    /\ ReportIdle
    /\ fwFile \in IspFiles
    /\ spiFlash \in FlashInits(RomBytes)
                     \cup {[i \in 1..RomBytes |-> GetOrFF(fwFile, i)]}
    /\ \E fault \in FlashFaults : spiChip = SpiChipInit(fault)
    /\ busData = FALSE
    /\ bus = <<>>
    /\ ipc = "boot"
    /\ firmware = <<>>
    /\ rom = <<>>
    /\ ispRes = "none"
    /\ romCall = [op |-> "none", address |-> 0, len |-> 0, res |-> "none",
                  n |-> 0, bytes |-> <<>>, before |-> spiFlash, k |-> 0]
    /\ \/ port \in {SoundPort(TRUE), SoundPort(FALSE)}
       \/ /\ fwFile \in PlainFiles
          /\ \E ph \in IspPhases, f \in Fuses, st \in BOOLEAN :
               port = [internal |-> FALSE, phase |-> ph, fuse |-> f,
                       sticky |-> st]
    /\ pmc = <<>>
    /\ ispErr = NoErr

NextIsp ==
    \/ IspLoad
    \/ IspEnterScratch
    \/ IspBackup
    \/ IspMatches
    \/ IspErase
    \/ IspEraseFailed
    \/ IspProgram
    \/ IspVerify
    \/ IspLeaveScratch
    \/ IspReturn
    \/ IspUnwind

SpecIsp == InitIsp /\ [][NextIsp]_vars

C14_WitnessStripped ==
    /\ Len(fwFile) = 3 + MaxTrail
    /\ Len(firmware) = 4
    /\ ispRes = "programmed"

C14_WitnessOverlong ==
    /\ Len(firmware) > RomBytes
    /\ spiChip.fault = "none"
    /\ ispRes = "programmed"

\* =============== the EC channel port by port (src/src/flash.rs, EcFlash)
\* TIMEOUT, the budget of polls of a wait (the code: 100000)
Timeout == 2
\* operations a client calls on the channel it holds
MaxChanCalls == 1

\* the Super-I/O index and data ports, and the ID registers
PortSioIndex == 46
PortSioData == 47
RegIdHigh == 32
RegIdLow == 33
\* the chip IDs of a known EC
IdIt8587 == 34183
IdIt5570 == 21872
\* set_param's command, and the parameters fcommand uses
EcSetParam == 129
ParamTrigger == 248
ParamDat == 249
ParamBuf0 == 250

\* (data_port, cmd_port) of the primary and of the secondary channel
ChanPorts(first) ==
    IF first THEN [data |-> 98, cmd |-> 102] ELSE [data |-> 104, cmd |-> 108]

\* what the status port and the data port may deliver
StatusValues == 0..3
DataValues == {LetterA, Dollar, SizeExtended}

\* the bytes a read-back of fcommand may deliver
ReadBackValues == {LetterA, SizeExtended}

\* faulty variant: the ID is formed low byte first
ChipIdLittle(a, b) == b * 256 + a

\* ((a as u16) << 8) | (b as u16)
ChipId(a, b) == a * 256 + b

\* one access to a port, for the log; ok: the status poll just before it
\* showed the condition the access needs
Access(k, p, v, ok) == [k |-> k, port |-> p, v |-> v, ok |-> ok]

\* can_read: sts & 1 == 1
CanRead(s) == s % 2 = 1

\* faulty variant: can_write tests the output-buffer bit
CanWriteBit0(s) == s % 2 = 0

\* can_write: sts & 2 == 0
CanWrite(s) == (s \div 2) % 2 = 0

\* get_param(param): cmd(0x80)?; write(param)?; read()
get_param_steps(param, use, i) ==
    <<Step("cmd", EcGetParam, ""), Step("wr", param, ""), Step("rd", i, use)>>

\* set_param(param, data): cmd(0x81)?; write(param)?; write(data)
set_param_steps(param, v) ==
    <<Step("cmd", EcSetParam, ""), Step("wr", param, ""), Step("wr", v, "")>>

\* faulty variant: the trigger is set before the buffer parameters
fcommand_trigger_first(c, dat, b) ==
    set_param_steps(ParamTrigger, c)
    \o set_param_steps(ParamDat, dat)
    \o Cat([i \in 1..4 |-> set_param_steps(ParamBuf0 + i - 1, b[i])])
    \o Cat([i \in 1..4 |-> get_param_steps(ParamBuf0 + i - 1, "buf", i)])
    \o set_param_steps(ParamTrigger, 0)

\* fcommand(cmd, dat, buf)
fcommand_steps(c, dat, b) ==
    set_param_steps(ParamDat, dat)
    \o Cat([i \in 1..4 |-> set_param_steps(ParamBuf0 + i - 1, b[i])])
    \o set_param_steps(ParamTrigger, c)
    \o Cat([i \in 1..4 |-> get_param_steps(ParamBuf0 + i - 1, "buf", i)])
    \o set_param_steps(ParamTrigger, 0)

\* faulty variant: one read more
get_str_one_more(index) ==
    <<Step("cmd", index, "")>>
    \o [i \in 1..(MaxStrReads + 1) |-> Step("rd", i, "str")]

\* get_str(index): cmd(index)?, then `for _i in 0..16` a read
get_str_steps(index) ==
    <<Step("cmd", index, "")>> \o [i \in 1..MaxStrReads |-> Step("rd", i, "str")]

\* faulty variant: the command goes out before the flush
query_steps_flush_late(name, first) ==
    CASE name = "size" ->
           (IF first THEN get_param_steps(ParamSize, "val", 0) ELSE <<>>)
           \o <<Step("flush", 0, "ignored")>>
      [] name = "project" ->
           get_str_steps(CmdProject) \o <<Step("flush", 0, "ignored")>>
      [] OTHER ->
           get_str_steps(CmdVersion) \o <<Step("flush", 0, "ignored")>>

\* impl Ec for EcFlash: `let _ = self.flush()`, then the query
query_steps(name, first) ==
    <<Step("flush", 0, "ignored")>>
    \o CASE name = "size" ->
              IF first THEN get_param_steps(ParamSize, "val", 0) ELSE <<>>
         [] name = "project" -> get_str_steps(CmdProject)
         [] OTHER -> get_str_steps(CmdVersion)

Queries == {"size", "project", "version"}

\* the transfers of operation c on a channel that is primary or not
ChanSteps(c, first) ==
    CASE c.name \in {"wait_read", "wait_write"} -> <<Step("wait", c.a, c.name)>>
      [] c.name = "flush" -> <<Step("flush", 0, "returned")>>
      [] c.name = "cmd" -> <<Step("cmd", c.a, "")>>
      [] c.name = "write" -> <<Step("wr", c.a, "")>>
      [] c.name = "read" -> <<Step("rd", 0, "val")>>
      [] c.name = "get_param" -> get_param_steps(c.a, "val", 0)
      [] c.name = "set_param" -> set_param_steps(c.a, c.b)
      [] c.name = "fcommand" -> fcommand_steps(c.a, c.b, c.buf)
      [] c.name = "get_str" -> get_str_steps(c.a)
      [] c.name \in Queries -> query_steps(c.name, first)
      [] OTHER -> <<>>

\* the calls a client makes
ChanCalls ==
    {[name |-> n, a |-> t, b |-> 0, buf |-> <<>>] :
        n \in {"wait_read", "wait_write"}, t \in 0..Timeout}
    \cup {[name |-> n, a |-> 0, b |-> 0, buf |-> <<>>] :
            n \in {"flush", "read"} \cup Queries}
    \cup {[name |-> n, a |-> EcEnterFollow, b |-> 0, buf |-> <<>>] :
            n \in {"cmd", "write"}}
    \cup {[name |-> "get_param", a |-> ParamSize, b |-> 0, buf |-> <<>>],
          [name |-> "set_param", a |-> ParamDat, b |-> 16, buf |-> <<>>],
          [name |-> "get_str", a |-> CmdProject, b |-> 0, buf |-> <<>>],
          [name |-> "fcommand", a |-> 118, b |-> 16, buf |-> <<44, 2, 0, 0>>]}

\* the transfers of the operation in progress, and the current one
CSteps == ChanSteps(cop, chan[1].primary)
CStep == CSteps[cip]

\* the budget a transfer's wait starts with: TIMEOUT, or wait_*'s argument
Budget(st) == IF st.k = "wait" THEN st.a ELSE Timeout

\* the operation returns to the client: Ok(val) or Err(())
ChanReturn(res, val) ==
    /\ cop' = NoCall
    /\ cip' = 1
    /\ cph' = "w1"
    /\ tmo' = 0
    /\ cres' = <<[call |-> cop, res |-> res, val |-> val, at |-> cph,
                  step |-> cip, left |-> tmo]>>

\* the operation's last transfer is done: its Ok value, v being the byte
\* last read and string get_str's string
ChanDone(v, string) ==
    ChanReturn("ok",
        CASE cop.name = "size" ->
               IF chan[1].primary /\ v = SizeExtended
               THEN 128 * 1024 ELSE 64 * 1024
          [] cop.name = "project" -> string
          [] cop.name = "version" -> VersionPrefix \o string
          [] cop.name = "get_str" -> string
          [] cop.name \in {"get_param", "read"} -> v
          [] OTHER -> 0)

\* the operation goes on with transfer i, or returns after its last one
ChanGoto(i, v, string) ==
    IF i > Len(CSteps) THEN ChanDone(v, string)
    ELSE /\ cip' = i
         /\ cph' = IF CSteps[i].k = "flush" THEN "flush" ELSE "w1"
         /\ tmo' = Budget(CSteps[i])
         /\ UNCHANGED <<cop, cres>>

\* faulty variant: the transfer whose wait timed out is started again
WaitFailedRetry ==
    /\ cph' = "w1"
    /\ tmo' = Timeout
    /\ UNCHANGED <<cop, cip, cres>>

\* a wait returned Err(()): `?` returns it from the operation; size,
\* project and version turn it into their default value
WaitFailed ==
    CASE cop.name = "size" -> ChanReturn("ok", 64 * 1024)
      [] cop.name = "project" -> ChanReturn("ok", <<>>)
      [] cop.name = "version" -> ChanReturn("ok", VersionPrefix)
      [] OTHER -> ChanReturn("err", 0)

\* EcFlash::new(primary): the Super-I/O probe
ChanNew ==
    /\ chan = <<>> /\ cres = <<>>
    /\ \E first \in BOOLEAN :
         LET id == ChipId(sio[1], sio[2])
             known == id = IdIt8587 \/ id = IdIt5570
         IN  /\ chan' = IF known
                        THEN <<[primary |-> first,
                                data_port |-> ChanPorts(first).data,
                                cmd_port |-> ChanPorts(first).cmd]>>
                        ELSE <<>>
             /\ cres' = <<[call |-> [NoCall EXCEPT !.name = "new"],
                           res |-> IF known THEN "ok" ELSE "Unknown EC",
                           val |-> id, at |-> "io", step |-> 1, left |-> 0]>>
    /\ clog' = <<Access("out", PortSioIndex, RegIdHigh, TRUE),
                 Access("in", PortSioData, sio[1], TRUE),
                 Access("out", PortSioIndex, RegIdLow, TRUE),
                 Access("in", PortSioData, sio[2], TRUE)>>
    /\ UNCHANGED <<sio, cop, cip, cph, tmo, polls, sawReady, lastPoll, cstr,
                   cbuf, ccalls>>
    /\ UNCHANGED <<coreVars, fileVars, reportVars, ispVars>>

\* the client calls an operation of the channel
ChanCall ==
    /\ chan # <<>> /\ cop.name = "none" /\ ccalls < MaxChanCalls
    /\ \E c \in ChanCalls :
         LET first == ChanSteps(c, chan[1].primary)[1]
         IN  /\ cop' = c
             /\ cph' = IF first.k = "flush" THEN "flush" ELSE "w1"
             /\ tmo' = Budget(first)
             /\ cbuf' = c.buf
    /\ cip' = 1
    /\ polls' = 0
    /\ sawReady' = FALSE
    /\ clog' = <<>>
    /\ cres' = <<>>
    /\ cstr' = <<>>
    /\ ccalls' = ccalls + 1
    /\ lastPoll' = <<>>
    /\ UNCHANGED <<sio, chan>>
    /\ UNCHANGED <<coreVars, fileVars, reportVars, ispVars>>

\* one turn of `while !self.can_read() && timeout > 0 { timeout -= 1 }` (or
\* can_write): sts() is read; the wait goes on, or ends with
\* `if timeout == 0 { Err(()) } else { Ok(()) }`.  polls counts the status
\* reads of the wait in progress, sawReady tells whether one of them read
\* the awaited state, lastPoll is the status last read; a transfer that
\* goes on to the next one starts them afresh
ChanPoll ==
    /\ cop.name # "none" /\ cph \in {"w1", "w2"}
    /\ \E s \in StatusValues :
         LET st == CStep
             ready == IF st.k = "rd" \/ st.m = "wait_read"
                      THEN CanRead(s) ELSE CanWrite(s)
             next == cph = "w2" /\ ready /\ tmo # 0 /\ cip < Len(CSteps)
         IN  /\ lastPoll' = IF next THEN <<>> ELSE <<s>>
             /\ polls' = IF next THEN 0 ELSE polls + 1
             /\ sawReady' = (~next /\ (sawReady \/ ready))
             /\ IF ~ready /\ tmo > 0
                THEN /\ tmo' = tmo - 1
                     /\ UNCHANGED <<cop, cip, cph, cres>>
                ELSE IF tmo = 0 THEN WaitFailed
                ELSE IF st.k = "wait" THEN ChanDone(0, cstr)
                ELSE IF cph = "w1"
                THEN /\ cph' = "io"
                     /\ UNCHANGED <<cop, cip, tmo, cres>>
                ELSE ChanGoto(cip + 1, 0, cstr)
    /\ UNCHANGED <<sio, chan, clog, cstr, cbuf, ccalls>>
    /\ UNCHANGED <<coreVars, fileVars, reportVars, ispVars>>

\* cmd: outb(self.cmd_port, data);  write: outb(self.data_port, data)
ChanOut ==
    /\ cop.name # "none" /\ cph = "io" /\ CStep.k \in {"cmd", "wr"}
    /\ clog' = Append(clog,
           Access("out",
                  IF CStep.k = "cmd" THEN chan[1].cmd_port
                  ELSE chan[1].data_port,
                  CStep.a,
                  lastPoll # <<>> /\ CanWrite(lastPoll[1])))
    /\ cph' = "w2"
    /\ tmo' = Timeout
    /\ polls' = 0
    /\ sawReady' = FALSE
    /\ lastPoll' = <<>>
    /\ UNCHANGED <<sio, chan, cop, cip, cres, cstr, cbuf, ccalls>>
    /\ UNCHANGED <<coreVars, fileVars, reportVars, ispVars>>

\* read: Ok(inb(self.data_port)), and what the caller does with the byte
ChanIn ==
    /\ cop.name # "none" /\ cph = "io" /\ CStep.k = "rd"
    /\ \E v \in (IF CStep.m = "buf" THEN ReadBackValues ELSE DataValues) :
         /\ clog' = Append(clog,
                Access("in", chan[1].data_port, v,
                       lastPoll # <<>> /\ CanRead(lastPoll[1])))
         /\ CASE CStep.m = "str" /\ v = Dollar ->
                   /\ ChanGoto(Len(CSteps) + 1, v, cstr)
                   /\ UNCHANGED <<cstr, cbuf>>
              [] CStep.m = "str" /\ v # Dollar ->
                   /\ cstr' = Append(cstr, v)
                   /\ ChanGoto(cip + 1, v, Append(cstr, v))
                   /\ UNCHANGED cbuf
              [] CStep.m = "buf" ->
                   /\ cbuf' = [cbuf EXCEPT ![CStep.a] = v]
                   /\ ChanGoto(cip + 1, v, cstr)
                   /\ UNCHANGED cstr
              [] OTHER ->
                   /\ ChanGoto(cip + 1, v, cstr)
                   /\ UNCHANGED <<cstr, cbuf>>
    /\ polls' = 0
    /\ sawReady' = FALSE
    /\ lastPoll' = <<>>
    /\ UNCHANGED <<sio, chan, ccalls>>
    /\ UNCHANGED <<coreVars, fileVars, reportVars, ispVars>>

\* flush: one test of `while self.can_read() && i > 0`; the loop goes on
\* with a read, or flush ends with `if i == 0 { Err(()) } else { Ok(()) }`,
\* which size, project and version ignore
ChanFlushPoll ==
    /\ cop.name # "none" /\ cph = "flush"
    /\ \E s \in StatusValues :
         /\ lastPoll' = IF CStep.m = "returned" \/ (CanRead(s) /\ tmo > 0)
                        THEN <<s>> ELSE <<>>
         /\ IF CanRead(s) /\ tmo > 0
            THEN /\ cph' = "flushin"
                 /\ UNCHANGED <<cop, cip, tmo, cres>>
            ELSE IF CStep.m = "returned"
            THEN IF tmo = 0 THEN WaitFailed ELSE ChanDone(0, cstr)
            ELSE ChanGoto(cip + 1, 0, cstr)
    /\ UNCHANGED <<sio, chan, polls, sawReady, clog, cstr, cbuf, ccalls>>
    /\ UNCHANGED <<coreVars, fileVars, reportVars, ispVars>>

\* flush: inb(self.data_port); i -= 1  (the byte read is dropped; the log
\* keeps the access, not the byte)
ChanFlushIn ==
    /\ cop.name # "none" /\ cph = "flushin"
    /\ clog' = Append(clog,
           Access("drop", chan[1].data_port, 0,
                  lastPoll # <<>> /\ CanRead(lastPoll[1])))
    /\ tmo' = tmo - 1
    /\ cph' = "flush"
    /\ lastPoll' = <<>>
    /\ UNCHANGED <<sio, chan, cop, cip, polls, sawReady, cres, cstr, cbuf,
                   ccalls>>
    /\ UNCHANGED <<coreVars, fileVars, reportVars, ispVars>>

\* a machine whose Super-I/O answers with one of these ID bytes
SioBytes == {133, 135, 85, 112}

InitChan ==
    /\ CoreIdle
    /\ FileIdle
    /\ ReportIdle
    /\ IspIdle
    /\ sio \in {<<a, b>> : a \in SioBytes, b \in SioBytes}
    /\ chan = <<>>
    /\ cop = NoCall
    /\ cip = 1
    /\ cph = "w1"
    /\ tmo = 0
    /\ polls = 0
    /\ sawReady = FALSE
    /\ lastPoll = <<>>
    /\ clog = <<>>
    /\ cres = <<>>
    /\ cstr = <<>>
    /\ cbuf = <<>>
    /\ ccalls = 0

NextChan ==
    \/ ChanNew
    \/ ChanCall
    \/ ChanPoll
    \/ ChanOut
    \/ ChanIn
    \/ ChanFlushPoll
    \/ ChanFlushIn

SpecChan == InitChan /\ [][NextChan]_vars

\* ---- claims about the EC channel ----

\* C21: EcFlash::new returns a channel if and only if the chip ID formed
\* big-endian from the two Super-I/O bytes read after selecting registers
\* 0x20 and 0x21 is 0x8587 or 0x5570; for any other ID it returns the
\* "Unknown EC" error, creates no channel, and has accessed only the ports
\* 0x2E and 0x2F.
C21_NewChecksChipId ==
    LET id == sio[1] * 256 + sio[2]
        known == id \in {34183, 21872}
    IN  /\ chan # <<>> => known
        /\ cres # <<>> /\ cres[1].call.name = "new" =>
             /\ clog = <<Access("out", 46, 32, TRUE),
                         Access("in", 47, sio[1], TRUE),
                         Access("out", 46, 33, TRUE),
                         Access("in", 47, sio[2], TRUE)>>
             /\ cres[1].val = id
             /\ known => cres[1].res = "ok" /\ chan # <<>>
             /\ ~known => cres[1].res = "Unknown EC" /\ chan = <<>>

\* new refused the byte-swapped ID 0x8785
C21_Witness ==
    /\ cres # <<>> /\ cres[1].call.name = "new"
    /\ sio = <<135, 133>>
    /\ cres[1].res = "Unknown EC"
    /\ chan = <<>>

\* new accepted 0x5570 and made the secondary channel
C21_WitnessKnown ==
    /\ cres # <<>> /\ cres[1].call.name = "new"
    /\ sio = <<85, 112>>
    /\ chan # <<>> /\ ~chan[1].primary
    /\ chan[1].data_port = 104 /\ chan[1].cmd_port = 108

\* C22: wait_read(t) and wait_write(t) return after at most t+1 status
\* polls; they return Ok if one of those polls observed the ready condition
\* and the timeout error only if none did, also when readiness first
\* appears on the final poll and when t = 0.
C22_WaitHonoursReadiness ==
    cres # <<>> /\ cres[1].call.name \in {"wait_read", "wait_write"} =>
        /\ polls <= cres[1].call.a + 1
        /\ sawReady => cres[1].res = "ok"
        /\ cres[1].res = "err" => ~sawReady

\* what the loop does guarantee: at most t+1 polls, Ok only after a poll that
\* observed readiness, and Ok exactly when the budget left is not zero
C22_WaitBounded ==
    cres # <<>> /\ cres[1].call.name \in {"wait_read", "wait_write"} =>
        /\ polls <= cres[1].call.a + 1
        /\ cres[1].res = "ok" => sawReady
        /\ cres[1].res = "ok" <=> cres[1].left # 0

\* wait_read(0) polled once, read the output-buffer-full bit set, and
\* returned the timeout error
C22_ReadyButTimeout ==
    /\ cres # <<>> /\ cres[1].call.name = "wait_read" /\ cres[1].call.a = 0
    /\ polls = 1 /\ lastPoll = <<1>> /\ sawReady
    /\ cres[1].res = "err"

\* one step of the channel seen from the ports
Outputs == Len(clog') = Len(clog) + 1 /\ clog'[Len(clog')].k = "out"
Inputs == Len(clog') = Len(clog) + 1 /\ clog'[Len(clog')].k \in {"in", "drop"}
ReturnsFrom(names) == cop.name \in names /\ cres' # <<>> /\ cop' = NoCall

C23_Step ==
    /\ Outputs /\ chan # <<>> =>
         /\ lastPoll # <<>>
         /\ (lastPoll[1] \div 2) % 2 = 0
    /\ Inputs /\ chan # <<>> =>
         /\ lastPoll # <<>>
         /\ lastPoll[1] % 2 = 1
    /\ ReturnsFrom({"cmd", "write"}) /\ cres'[1].res = "ok" =>
         /\ Len(clog) = 1 /\ clog' = clog
         /\ cph = "w2"
         /\ lastPoll' # <<>>
         /\ (lastPoll'[1] \div 2) % 2 = 0
    /\ ReturnsFrom({"cmd", "write", "read"}) /\ cres'[1].res = "err"
         /\ cres'[1].at = "w1" =>
         clog' = <<>>

\* C23: the handshake is respected on every transfer: cmd and write output
\* a byte only if the status poll just before showed bit 1 clear, and return
\* Ok only after a later poll shows bit 1 clear again; the data port is read
\* only if the status poll just before showed bit 0 set; when the first wait
\* times out the call has neither written nor read a byte.
C23_Handshake == [][C23_Step]_vars

\* write put its byte on the data port and returned Ok after its second wait
C23_Witness ==
    /\ cres # <<>> /\ cres[1].call.name = "write" /\ cres[1].res = "ok"
    /\ cres[1].at = "w2"
    /\ Len(clog) = 1 /\ clog[1].k = "out" /\ clog[1].port = chan[1].data_port
    /\ lastPoll \in {<<0>>, <<1>>}

\* read timed out in its wait and touched no port
C23_WitnessTimeout ==
    /\ cres # <<>> /\ cres[1].call.name = "read" /\ cres[1].res = "err"
    /\ cres[1].at = "w1"
    /\ polls = Timeout + 1
    /\ clog = <<>>

\* a wait of get_param, set_param, get_str or fcommand is about to return
\* the timeout error: its budget is used up and the status is read once more
TimingOut ==
    /\ cop.name \in {"get_param", "set_param", "get_str", "fcommand"}
    /\ cph \in {"w1", "w2"}
    /\ tmo = 0

\* the operation returns Err(()) at once: no port is touched again, the
\* failed transfer is not started again, no value comes back
FailsAtOnce ==
    /\ cop' = NoCall
    /\ cres' # <<>> /\ cres'[1].call = cop
    /\ cres'[1].res = "err" /\ cres'[1].val = 0
    /\ cres'[1].step = cip
    /\ clog' = clog

\* the bytes read back so far by the operation in progress
ReadBacks == SelectSeq(clog, LAMBDA e : e.k = "in")

\* as C24, in the words of the claim: on a timeout nothing of the result
\* reaches the caller, the buffer handed to fcommand included
C24_NothingPartial == [][TimingOut => FailsAtOnce /\ cbuf' = cop.buf]_vars

\* C24: the channel does not retry or recover locally: when a transfer
\* inside get_param, set_param, get_str or fcommand times out, the operation
\* returns the error at once, without starting the failed transfer again and
\* without touching a port again, and the error carries no value and no
\* string; the caller's buffer of fcommand holds the read-backs that were
\* completed before the failure and is otherwise as it was handed in.
C24_NoRetry ==
    [][TimingOut =>
          /\ FailsAtOnce
          /\ cbuf' = [i \in 1..Len(cop.buf) |->
                        IF i <= Len(ReadBacks) THEN ReadBacks[i].v
                        ELSE cop.buf[i]]]_vars

\* fcommand timed out after two read-backs: the error is returned and the
\* caller's buffer holds those two bytes and two of its own
C24_Witness ==
    /\ cres # <<>> /\ cres[1].call.name = "fcommand" /\ cres[1].res = "err"
    /\ Len(ReadBacks) = 2
    /\ cbuf = <<ReadBacks[1].v, ReadBacks[2].v, 0, 0>>
    /\ cbuf # cres[1].call.buf

\* get_str timed out after it had read a byte: no string is returned
C24_WitnessString ==
    /\ cres # <<>> /\ cres[1].call.name = "get_str" /\ cres[1].res = "err"
    /\ cstr # <<>>
    /\ cres[1].val = 0

\* the Flasher's side of C24: an operation of the Flasher that returns
\* before the end of its sequence returns Err(()), with the bytes read so far
\* dropped and at most the failing command sent since
C24_FlasherReturnsError ==
    [][op \notin {"none", "new"} /\ op' = "none" /\ ip <= Len(Steps) =>
          /\ ret' = "err"
          /\ op = "read" => buf' = <<>>
          /\ Len(cmdLog') <= Len(cmdLog) + 1]_vars

\* Flasher::read failed after it had sent commands: no bytes are returned
C24_WitnessFlasher ==
    /\ op = "none" /\ ret = "err"
    /\ trace # <<>> /\ trace[Len(trace)].op = "read"
    /\ buf = <<>>
    /\ cmdLog # <<>>

\* the accesses of the get_str call in progress or just returned
InGetStr ==
    \/ cop.name = "get_str"
    \/ cop = NoCall /\ cres # <<>> /\ cres[1].call.name = "get_str"

\* C25: get_str(index) sends the command once, then performs at most 16
\* data reads (MaxStrReads of them at the scale of the model) and stops at
\* the first '$'; on success the string returned is exactly the bytes read
\* before the terminator, has at most that length and holds no '$'; when no
\* byte read is '$' it returns them all and does not read one more.
C25_GetStr ==
    InGetStr =>
        LET index == IF cop.name = "get_str" THEN cop.a ELSE cres[1].call.a
            bytes == [i \in 1..Len(ReadBacks) |-> ReadBacks[i].v]
        IN  /\ clog # <<>> =>
                 /\ clog[1] = Access("out", chan[1].cmd_port, index, TRUE)
                 /\ \A i \in 2..Len(clog) : clog[i].k = "in"
            /\ Len(bytes) <= MaxStrReads
            /\ \A i \in 1..(Len(bytes) - 1) : bytes[i] # 36
            /\ cop = NoCall /\ cres[1].res = "ok" =>
                 /\ bytes # <<>>
                 /\ bytes[Len(bytes)] = 36 \/ Len(bytes) = MaxStrReads
                 /\ cres[1].val = IF bytes[Len(bytes)] = 36
                                  THEN SubSeq(bytes, 1, Len(bytes) - 1)
                                  ELSE bytes
                 /\ Len(cres[1].val) <= MaxStrReads
                 /\ \A i \in 1..Len(cres[1].val) : cres[1].val[i] # 36

\* no '$' came: get_str returned all the bytes it was allowed to read
C25_Witness ==
    /\ cop = NoCall /\ cres # <<>> /\ cres[1].call.name = "get_str"
    /\ cres[1].res = "ok"
    /\ Len(ReadBacks) = MaxStrReads
    /\ Len(cres[1].val) = MaxStrReads

\* the second byte was '$': get_str returned the first byte only
C25_WitnessTerminated ==
    /\ cop = NoCall /\ cres # <<>> /\ cres[1].call.name = "get_str"
    /\ cres[1].res = "ok"
    /\ Len(ReadBacks) = 2 /\ ReadBacks[2].v = 36
    /\ cres[1].val = <<ReadBacks[1].v>>

\* the accesses of the query in progress or just returned
Query == IF cop # NoCall THEN cop ELSE IF cres # <<>> THEN cres[1].call ELSE NoCall
Drops == SelectSeq(clog, LAMBDA e : e.k = "drop")

\* the port log of a query: discarded reads first, at most TIMEOUT of them,
\* each made while the output-buffer-full bit was set, then the command
DrainedFirst ==
    Query.name \in {"size", "project", "version"} =>
        /\ Len(Drops) <= Timeout
        /\ \A i \in 1..Len(clog) :
             IF i <= Len(Drops)
             THEN clog[i].k = "drop" /\ clog[i].port = chan[1].data_port
                  /\ clog[i].ok
             ELSE clog[i].k \in {"out", "in"}
        /\ Len(clog) > Len(Drops) =>
             /\ clog[Len(Drops) + 1].k = "out"
             /\ clog[Len(Drops) + 1].port = chan[1].cmd_port
             /\ clog[Len(Drops) + 1].v =
                  CASE Query.name = "size" -> 128
                    [] Query.name = "project" -> 146
                    [] Query.name = "version" -> 147
        /\ Query.name = "size" /\ ~chan[1].primary => Len(clog) = Len(Drops)

\* the flush of a query has used up its budget and fails: the query goes on
\* to the first wait of its command (size on the secondary channel, which
\* sends no command, returns its default)
FlushFailureIgnored ==
    cop.name \in {"size", "project", "version"} /\ cph = "flush" /\ tmo = 0 =>
        IF cop.name = "size" /\ ~chan[1].primary
        THEN cop' = NoCall /\ cres'[1].res = "ok"
        ELSE /\ cop' = cop /\ cip' = 2
             /\ CSteps[2].k = "cmd"
             /\ cph' = "w1" /\ tmo' = Timeout

\* C26: each query on a live EC (size, project, version) first drains stale
\* output: it reads and discards the data port while the output-buffer-full
\* bit is set, at most TIMEOUT times, before it writes any command byte; a
\* failure of the flush is ignored and the command is issued all the same.
C26_FlushFirst == [][DrainedFirst' /\ FlushFailureIgnored]_vars

\* version found the output buffer full TIMEOUT times, so its flush failed,
\* and then sent its command and returned the string it read
C26_Witness ==
    /\ cop = NoCall /\ cres # <<>> /\ cres[1].call.name = "version"
    /\ Len(Drops) = Timeout
    /\ Len(clog) > Timeout
    /\ clog[Timeout + 1] = Access("out", chan[1].cmd_port, 147, TRUE)
    /\ cres[1].res = "ok" /\ Len(cres[1].val) > 2

\* the port sequence of set_param(p, v) and of get_param(p), as
\* <<direction, port, byte>>; a byte of -1 stands for whatever is read
SetParamPorts(p, v) ==
    <<<<"out", chan[1].cmd_port, 129>>, <<"out", chan[1].data_port, p>>,
      <<"out", chan[1].data_port, v>>>>
GetParamPorts(p) ==
    <<<<"out", chan[1].cmd_port, 128>>, <<"out", chan[1].data_port, p>>,
      <<"in", chan[1].data_port, -1>>>>

\* the port sequence of a complete fcommand(c, dat, b)
FcommandPorts(c, dat, b) ==
    SetParamPorts(249, dat)
    \o SetParamPorts(250, b[1]) \o SetParamPorts(251, b[2])
    \o SetParamPorts(252, b[3]) \o SetParamPorts(253, b[4])
    \o SetParamPorts(248, c)
    \o GetParamPorts(250) \o GetParamPorts(251)
    \o GetParamPorts(252) \o GetParamPorts(253)
    \o SetParamPorts(248, 0)

\* C27: fcommand orders its parameter transactions: 0xF9 (dat) and
\* 0xFA..0xFD (buf[0..4]) are set first, the trigger set_param(0xF8, cmd)
\* follows them, the four read-backs of 0xFA..0xFD follow the trigger and the
\* clearing set_param(0xF8, 0) comes last; each set_param is command 0x81,
\* data p, data v, each get_param command 0x80, data p, one data read.  The
\* log of an fcommand is at every moment a beginning of that sequence, and
\* all of it, with the read-backs in buf, when fcommand returns Ok.
C27_FcommandOrder ==
    Query.name = "fcommand" =>
        LET want == FcommandPorts(Query.a, Query.b, Query.buf)
        IN  /\ Len(clog) <= Len(want)
            /\ \A i \in 1..Len(clog) :
                 /\ clog[i].k = want[i][1]
                 /\ clog[i].port = want[i][2]
                 /\ want[i][3] # -1 => clog[i].v = want[i][3]
            /\ cop = NoCall /\ cres[1].res = "ok" =>
                 /\ Len(clog) = Len(want)
                 /\ cbuf = [i \in 1..4 |-> ReadBacks[i].v]

\* fcommand(0x76, 0x10, [0x2c, 2, 0, 0]) ran to its end: 33 port accesses,
\* and buf holds the four bytes read back
C27_Witness ==
    /\ cop = NoCall /\ cres # <<>> /\ cres[1].call.name = "fcommand"
    /\ cres[1].res = "ok"
    /\ Len(clog) = 33
    /\ clog[16] = Access("out", chan[1].cmd_port, 129, TRUE)
    /\ clog[17] = Access("out", chan[1].data_port, 248, TRUE)
    /\ clog[18] = Access("out", chan[1].data_port, 118, TRUE)
    /\ cbuf = <<clog[21].v, clog[24].v, clog[27].v, clog[30].v>>
    /\ cbuf # cres[1].call.buf

\* ---- claims about the SPI commands of erase and write ----

\* the operation the SPI log belongs to, and whether it has returned Ok
LogOp ==
    IF spiLog = <<>> THEN "none"
    ELSE IF spiLog[1].call = Len(trace) THEN op
    ELSE trace[spiLog[1].call + 1].op
LogReturnedOk ==
    /\ spiLog # <<>> /\ spiLog[1].call < Len(trace)
    /\ trace[spiLog[1].call + 1].res = "ok"

\* C28: Flasher::erase issues exactly size/1024 sector-erase commands (0xD7;
\* one per block of the scaled device), and each of them is sent only after
\* a status read showing BUSY = 0 and WEL = 1 obtained since the previous
\* erase command, is followed by exactly three address bytes and a
\* follow-mode exit, and no further erase or write-enable is sent until a
\* status read shows BUSY = 0.
C28_EraseSequence ==
    LogOp = "erase" =>
        /\ \A i \in 1..Len(spiLog) :
             LET e == spiLog[i]
             IN  /\ e.cmd = IF i % 2 = 1 THEN 6 ELSE 215
                 /\ e.cmd = 215 =>
                      /\ e.ready
                      /\ Len(e.args) <= 3
                      /\ i < Len(spiLog) \/ LogReturnedOk =>
                           Len(e.args) = 3 /\ e.end = "exit"
                 /\ i > 1 => e.idle
                 /\ e.cmd = 6 => e.args = <<>>
        /\ LogReturnedOk =>
             Len(SelectSeq(spiLog, LAMBDA e : e.cmd = 215))
                = (size \div RegionBytes) * RegionBlocks

\* erase ran through a device of two regions and returned Ok
C28_Witness ==
    /\ LogOp = "erase" /\ LogReturnedOk
    /\ size = 2 * RegionBytes
    /\ Len(spiLog) = 4 * RegionBlocks
    /\ spiLog[Len(spiLog)].cmd = 215
    /\ spiLog[Len(spiLog)].end = "exit"

\* the 24-bit address a command's three address bytes denote
Address24(args) == args[1] * 65536 + args[2] * 256 + args[3]

\* the sector-erase commands of the log that have their address
Erases == SelectSeq(spiLog, LAMBDA e : e.cmd = 215 /\ Len(e.args) = 3)

\* C29: in Flasher::erase the 24-bit address sent with each 0xD7 command is
\* the byte offset of the block being erased (sector*65536 + block*1024, the
\* callback offset minus 1024), so that over a whole run every 1 KiB-aligned
\* sector address in [0, size) is addressed exactly once.
C29_EraseAddress ==
    LogOp = "erase" =>
        /\ \A k \in 1..Len(Erases) :
             Address24(Erases[k].args)
                = ((k - 1) \div RegionBlocks) * RegionSpan
                  + ((k - 1) % RegionBlocks) * SectorBytes
        /\ LogReturnedOk =>
             \A s \in 0..((size \div RegionBytes) - 1), b \in 0..(RegionBlocks - 1) :
                Cardinality({k \in 1..Len(Erases) :
                               Address24(Erases[k].args)
                                 = s * RegionSpan + b * SectorBytes}) = 1

\* what erase sends: the k-th command of a region carries the address
\* region*65536 + block*256
C29_AddressSent ==
    LogOp = "erase" =>
        \A k \in 1..Len(Erases) :
            /\ Erases[k].args = <<(k - 1) \div RegionBlocks,
                                  (k - 1) % RegionBlocks, 0>>
            /\ Address24(Erases[k].args)
                 = ((k - 1) \div RegionBlocks) * RegionSpan
                   + ((k - 1) % RegionBlocks) * 256

\* erase sent the command for block 1 of region 0 with address 0x000100
C29_SecondBlockAt256 ==
    /\ LogOp = "erase"
    /\ Len(Erases) >= 2
    /\ Address24(Erases[2].args) = 256

\* the SPI commands write sends for one region: a write-enable, one AAI
\* command per word, a write-disable
RegionCommands == RegionBlocks * BlockWords + 2

\* C30: Flasher::write programs each 64 KiB region as one AAI sequence:
\* exactly one write-enable before the region's first word; exactly 32768
\* AAI commands (0xAD) per region (one per word of the scaled region), of
\* which only the first carries three address bytes, denoting the address
\* region*65536, and all others only the two data bytes; each word is
\* followed by a wait until BUSY = 0 before the next word; after the last
\* word a write-disable completes (WEL = 0 observed) before the next region
\* starts or write returns.
C30_WriteSequence ==
    LogOp = "write" =>
        /\ \A i \in 1..Len(spiLog) :
             LET e == spiLog[i]
                 region == (i - 1) \div RegionCommands
                 pos == (i - 1) % RegionCommands
                 complete == i < Len(spiLog) \/ LogReturnedOk
             IN  /\ e.cmd = IF pos = 0 THEN 6
                            ELSE IF pos = RegionCommands - 1 THEN 4 ELSE 173
                 /\ e.cmd # 173 => e.args = <<>>
                 /\ pos = 0 /\ region > 0 => e.off
                 /\ pos = 1 =>
                      /\ e.ready
                      /\ Len(e.args) <= 5
                      /\ Len(e.args) >= 3 =>
                           /\ SubSeq(e.args, 1, 3) = <<region, 0, 0>>
                           /\ Address24(e.args) = region * RegionSpan
                      /\ complete => Len(e.args) = 5
                 /\ pos > 1 => e.idle
                 /\ pos > 1 /\ e.cmd = 173 =>
                      /\ Len(e.args) <= 2
                      /\ complete => Len(e.args) = 2
        /\ LogReturnedOk =>
             /\ Len(spiLog) = (size \div RegionBytes) * RegionCommands
             /\ mon.off

\* write ran through a device of two regions and returned Ok; the first AAI
\* command of the second region carried the address 0x010000
C30_Witness ==
    /\ LogOp = "write" /\ LogReturnedOk
    /\ size = 2 * RegionBytes
    /\ Len(spiLog) = 2 * RegionCommands
    /\ spiLog[RegionCommands + 1].cmd = 6
    /\ spiLog[RegionCommands + 2].cmd = 173
    /\ SubSeq(spiLog[RegionCommands + 2].args, 1, 3) = <<1, 0, 0>>
    /\ spiLog[Len(spiLog)].cmd = 4

\* ---- claims about progress, status polls and termination ----

\* the operation in progress, or the one that returned last
CurrentOp ==
    IF op # "none" THEN op
    ELSE IF trace # <<>> THEN trace[Len(trace)].op ELSE "none"

\* the commands of the SPI log that belong to the operation in progress
OwnLog == IF spiLog # <<>> /\ spiLog[1].call = Len(trace) THEN spiLog ELSE <<>>

\* the callbacks made so far: the k-th received k blocks' worth of bytes,
\* and there are size/1024 of them (one per block of the scaled device) when
\* the operation has returned Ok
ProgressCounts ==
    CurrentOp \in {"read", "erase", "write"} =>
        /\ \A k \in 1..Len(progress) : progress[k] = k * BlockBytes
        /\ Len(progress) * BlockBytes <= size
        /\ op = "none" /\ ret = "ok" =>
             /\ Len(progress) * BlockBytes = size
             /\ progress[Len(progress)] = size

\* a callback is being made: the transfers of its block are complete (read
\* has taken the block's bytes, erase has sent the block's 0xD7 with its
\* address and seen BUSY = 0 since, write has sent the block's words and
\* seen BUSY = 0 since)
ProgressAfterBlock ==
    progress' # progress /\ op' = op /\ op # "none" =>
        LET k == Len(progress')
            n == Len(OwnLog)
        IN  /\ k = Len(progress) + 1
            /\ op = "read" => Len(buf) = k * BlockBytes
            /\ op = "erase" =>
                 /\ n = 2 * k
                 /\ OwnLog[n].cmd = 215 /\ Len(OwnLog[n].args) = 3
                 /\ OwnLog[n].end = "exit"
                 /\ mon.idle
            /\ op = "write" =>
                 /\ Len(SelectSeq(OwnLog, LAMBDA e : e.cmd = 173))
                      = k * BlockWords
                 /\ OwnLog[n].cmd = 173
                 /\ Len(OwnLog[n].args) \in {2, 5}
                 /\ mon.idle

\* an operation that fails makes no callback for the block it failed in
NoProgressOnFailure ==
    op # "none" /\ op' = "none" /\ ret' = "err" => progress' = progress

\* C31: in a successful Flasher::read, erase or write the progress callback
\* is invoked exactly size/1024 times and its k-th invocation receives
\* k*1024 (k blocks of the scaled device), so the values increase strictly
\* and the last equals size; a block's callback is invoked only after all
\* channel transfers of the block have completed, and none is invoked for a
\* block whose transfers failed.
C31_Progress ==
    [][ProgressCounts' /\ ProgressAfterBlock /\ NoProgressOnFailure]_vars

\* write ran through a device of two regions and returned Ok
C31_Witness ==
    /\ op = "none" /\ ret = "ok" /\ CurrentOp = "write"
    /\ size = 2 * RegionBytes
    /\ Len(progress) = 2 * RegionBlocks
    /\ progress[Len(progress)] = size

\* erase failed in its second block: one callback was made
C31_WitnessFailure ==
    /\ op = "none" /\ ret = "err" /\ CurrentOp = "erase"
    /\ progress = <<BlockBytes>>
    /\ Len(spiLog) >= 3

\* a polling loop ends: the status byte just read lets the primitive go on
\* to its exit_follow_mode and return Ok
LoopEnds == AtStep({"poll"}) /\ ip' = ip + 1

\* the loop that ends is the first since the operation sent SPI command c,
\* which makes it the loop of spi_write_enable (c = 0x06) or of
\* spi_write_disable (c = 0x04)
FirstLoopAfter(c) ==
    /\ OwnLog # <<>> /\ OwnLog[Len(OwnLog)].cmd = c
    /\ mon.loops = 0

\* C32: the SPI status primitives return Ok only after observing the
\* awaited status: spi_write_enable only after a status read with BUSY = 0
\* and WEL = 1 obtained after the command 0x06 was sent, spi_write_disable
\* only after a status read with WEL = 0 obtained after the command 0x04 was
\* sent, spi_wait only after a status read with BUSY = 0.
C32_StatusAwaited ==
    [][LoopEnds =>
         LET v == ec.out[1]
         IN  IF FirstLoopAfter(6) THEN v % 4 = 2
             ELSE IF FirstLoopAfter(4) THEN (v \div 2) % 2 = 0
             ELSE v % 2 = 0]_vars

\* erase has sent 0x06, the loop of spi_write_enable has ended on a status
\* of BUSY = 0 and WEL = 1, and the sector erase is about to follow
C32_Witness ==
    /\ op = "erase"
    /\ OwnLog # <<>> /\ OwnLog[Len(OwnLog)].cmd = 6
    /\ mon.loops = 1 /\ mon.ready
    /\ chip.wel /\ ~chip.busy

\* write has sent 0x04 and the loop of spi_write_disable has ended
C32_WitnessDisable ==
    /\ op = "write"
    /\ OwnLog # <<>> /\ OwnLog[Len(OwnLog)].cmd = 4
    /\ mon.loops = 1 /\ mon.off

\* -------------------- the Flasher over an EC that answers every transfer
\* The flash may be sound, may never latch write-enable ("locked"), or may
\* never finish an erase or a program ("hung").
ChipFaults == {"none", "locked", "hung"}

\* the transfer after this one is an EcFlash::read
ReadFollows ==
    ip + 1 <= Len(Steps) /\ Steps[ip + 1].k \in {"val", "push", "poll"}

\* EcFlash::cmd and EcFlash::write return Ok, and the EC puts the byte the
\* next read takes into its output buffer
CmdAnswered == EcCmd /\ (ReadFollows => ec'.out # <<>>)
WriteAnswered == EcWrite /\ (ReadFollows => ec'.out # <<>>)

InitLive ==
    /\ ToolsIdle
    /\ \E regions \in {1, 2} :
         flash \in {Blank(regions * RegionBytes),
                    [i \in 1..(regions * RegionBytes) |-> 170]}
    /\ flash0 = flash
    /\ \E f \in ChipFaults :
         chip = [wel |-> FALSE, busy |-> FALSE, aai |-> FALSE, aaiPtr |-> 0,
                 rdPtr |-> 0, cmd |-> 0, args |-> <<>>, fault |-> f]
    /\ ec = [follow |-> FALSE, mode |-> "cmd", out |-> <<>>,
             acked |-> <<>>, halted |-> FALSE]
    /\ InitFlasher
    /\ data = <<>>
    /\ image = <<>>
    /\ pc = "apiboot"

\* the steps of the Flasher
LiveSteps ==
    \/ CmdAnswered
    \/ WriteAnswered
    \/ EcFlush
    \/ EcRead
    \/ Callback
    \/ NextSector
    \/ ReturnOk

\* the client: new, start, and one of read, erase and write
LiveRead == pc = "apistart" /\ ApiRead
LiveErase == pc = "apistart" /\ ApiErase
LiveWrite == pc = "apistart" /\ ApiWrite

NextLive ==
    \/ LiveSteps
    \/ FlashComplete
    \/ ApiNew
    \/ ApiStart
    \/ LiveRead
    \/ LiveErase
    \/ LiveWrite

\* the Flasher runs (a call in progress takes its next step) and a sound
\* flash finishes what it started
SpecLive ==
    InitLive /\ [][NextLive]_vars /\ WF_vars(LiveSteps) /\ WF_vars(FlashComplete)

\* C33: status polling has no bound of its own.  With an EC that answers
\* every transfer, an erase or write on a flash that never reports the
\* awaited status (WEL = 1 after write-enable for a locked flash, BUSY = 0
\* for a hung one) never returns, neither Ok nor an error; on a flash that
\* does report it, read, erase and write each terminate with Ok.
C33_PollingUnbounded ==
    /\ [](op \in {"erase", "write"} /\ chip.fault # "none" => [](op # "none"))
    /\ (op = "read") ~> (op = "none" /\ ret = "ok")
    /\ (op = "erase" /\ chip.fault = "none") ~> (op = "none" /\ ret = "ok")
    /\ (op = "write" /\ chip.fault = "none") ~> (op = "none" /\ ret = "ok")

\* erase polls a flash that stays busy after the first sector erase
C33_Witness ==
    /\ op = "erase" /\ chip.fault = "hung" /\ chip.busy
    /\ AtStep({"poll"})
    /\ mon.loops = 0 /\ ~mon.idle
    /\ OwnLog # <<>> /\ OwnLog[Len(OwnLog)].cmd = 215

\* write polls a flash that did not latch write-enable
C33_WitnessLocked ==
    /\ op = "write" /\ chip.fault = "locked" /\ ~chip.wel
    /\ AtStep({"poll"})
    /\ OwnLog # <<>> /\ OwnLog[Len(OwnLog)].cmd = 6

\* erase of a sound flash of two regions returned Ok
C33_WitnessOk ==
    /\ op = "none" /\ ret = "ok" /\ CurrentOp = "erase"
    /\ chip.fault = "none" /\ size = 2 * RegionBytes

\* ------------------------------------------------ claims on isp_inner's exits
\* the places of the log where the Drop of `who` starts
DropsOf(who) == {i \in 1..Len(bus) : bus[i].k = "drop" /\ bus[i].v = who}

\* a call of the port returned Err at place i of the log
FailedAt(i) == bus[i].k = "failed"

\* bytes written to the selected chip at place i of the log
WrittenAt(i) == bus[i].k = "write" /\ bus[i].v # <<0>>

\* places i..j of the log are an attempt at SpiBus::reset and nothing else:
\* INDAR1 to 0xFE if needed, then the write of 0, or the Err that ended it
ResetOnly(i, j) ==
    /\ \A n \in i..j :
         \/ bus[n].k = "indar1" /\ bus[n].v = IndarControl
         \/ bus[n].k = "write" /\ bus[n].v = <<0>>
         \/ FailedAt(n)
    /\ \A n \in i..(j - 1) : ~FailedAt(n)
    /\ j >= i
    /\ FailedAt(j) \/ (bus[j].k = "write" /\ bus[j].v = <<0>>)

\* places i..j of the log are an attempt at SpiRom::write_disable: 0x04 is
\* the first byte sent to the chip, status reads follow, and nothing is
\* missing unless a call of the port failed
WriteDisableOnly(i, j) ==
    /\ \A n \in i..j :
         WrittenAt(n) =>
           IF \A m \in i..(n - 1) : ~WrittenAt(m) THEN bus[n].v = <<SpiWrdi>>
           ELSE bus[n].v = <<SpiRdsr>>
    /\ \A n \in i..(j - 1) : ~FailedAt(n)
    /\ j >= i
    /\ FailedAt(j) \/ (\E n \in i..j : WrittenAt(n)) 

\* isp_inner has returned or is unwinding
IspInnerLeft == ipc = "done" /\ ispRes # "hang"

\* SpiBus::new failed: at flash_address, or at its reset
NewFailedAtAddress == romCall.k = 1 /\ bus # <<>> /\ FailedAt(1)
NewFailedAtReset ==
    romCall.k = 1 /\ Len(bus) >= 2 /\ bus[1].k = "address" /\ FailedAt(2)

\* the log of the last step of isp_inner ends with the two Drops, in order
CleanedUp ==
    \E i \in DropsOf("SpiRom"), j \in DropsOf("SpiBus") :
      /\ DropsOf("SpiRom") = {i}
      /\ DropsOf("SpiBus") = {j}
      /\ i < j
      /\ WriteDisableOnly(i + 1, j - 1)
      /\ ResetOnly(j + 1, Len(bus))

\* the result is the body's: a transport error exactly when a call of the
\* port failed in the body, before any Drop
ResultKept ==
    (ispRes = "transport")
      <=> \E n \in 1..Len(bus) :
            /\ FailedAt(n)
            /\ \A m \in 1..n : bus[m].k # "drop"

\* C34 as claimed: on every exit path of isp_inner (success, early exit,
\* erase or program verification error, transport error) write-disable 0x04
\* is attempted by the SpiRom's Drop and then the SpiBus is reset, in that
\* order and after the last flash command of the body, and a failure of
\* these steps does not replace the function's result
C34_CleanupOnEveryExit ==
    IspInnerLeft => CleanedUp /\ ResultKept

\* C34, amended: so it is on every exit path once SpiBus::new has returned
\* Ok.  When SpiBus::new fails at flash_address nothing is cleaned up, and
\* when it fails at its reset the SpiBus alone is dropped: the reset is
\* attempted once more and no write-disable is sent.
C34_CleanupOnceBuilt ==
    IspInnerLeft =>
      /\ ResultKept
      /\ IF NewFailedAtAddress THEN Len(bus) = 1
         ELSE IF NewFailedAtReset
         THEN /\ DropsOf("SpiRom") = {}
              /\ DropsOf("SpiBus") = {3}
              /\ ResetOnly(4, Len(bus))
         ELSE CleanedUp

\* a program verification error is returned although the reset of the
\* cleanup failed; a transport error in the body is returned after a
\* cleanup that went through
C34_Witness ==
    /\ IspInnerLeft
    /\ ispRes = "Failed to program"
    /\ CleanedUp
    /\ FailedAt(Len(bus))

C34_WitnessTransport ==
    /\ IspInnerLeft
    /\ ispRes = "transport"
    /\ CleanedUp
    /\ bus[Len(bus)].k = "write"
    /\ \E n \in 1..Len(bus) : WrittenAt(n) /\ bus[n].v = <<SpiWrdi>>

\* SpiBus::new failed at flash_address: isp_inner returns the transport
\* error with no write-disable and no reset
C34_WitnessNoCleanup ==
    /\ IspInnerLeft
    /\ NewFailedAtAddress
    /\ ispRes = "transport"

\* place n of the log sends a command byte: the first write to the chip
\* after it was selected
CommandAt(n) == WrittenAt(n) /\ n > 1 /\ bus[n - 1].k = "indar1"

\* the command byte at place n comes right after a reset: the write of 0,
\* then the select
ResetBefore(n) ==
    /\ n > 2
    /\ bus[n - 1].k = "indar1" /\ bus[n - 1].v = IndarData
    /\ bus[n - 2].k = "write" /\ bus[n - 2].v = <<0>>

\* C35: in the SpiRom/SpiBus layer the chip is disabled before and after
\* each transaction: every command byte a SpiRom operation writes comes
\* right after a reset, a reset follows the last byte of a transaction
\* before the operation returns, and so the chip is deselected (SpiBus.data
\* is false) at every boundary between SpiRom operations
C35_ResetAroundTransactions ==
    /\ \A n \in 1..Len(bus) : WrittenAt(n) => CommandAt(n) /\ ResetBefore(n)
    /\ bus # <<>> => bus[Len(bus)].k = "write" /\ bus[Len(bus)].v = <<0>>
    /\ ~busData
    /\ spiChip.sel = FALSE

\* what the code does keep: every command byte comes right after a reset
C35_ResetBeforeCommand ==
    \A n \in 1..Len(bus) : WrittenAt(n) => CommandAt(n) /\ ResetBefore(n)

\* read_at has returned its bytes and left the chip selected
C35_WitnessSelected ==
    /\ romCall.op = "read_at"
    /\ romCall.res = "ok"
    /\ romCall.len > 0
    /\ busData
    /\ spiChip.sel
    /\ bus[Len(bus)].k = "read"

\* isp_inner got as far as its verification of the program
VerifiedProgram == ispRes \in {"programmed", "Failed to program", "panic"}

\* C36: for every offset at which the byte re-read after programming
\* differs from the expected one (firmware[i] below firmware.len(), 0xFF
\* from there on), isp_inner returns the program-failed error carrying the
\* offset, the actual byte and the expected byte, also when the offset is
\* not below firmware.len(); it never terminates abnormally instead
C36_ProgramFailureReported ==
    VerifiedProgram =>
      /\ ispRes # "panic"
      /\ \A i \in 1..Len(rom) :
           i = FirstMismatch(rom, firmware) =>
             /\ ispRes = "Failed to program"
             /\ ispErr = [offset |-> i - 1, actual |-> rom[i],
                          expected |-> GetOrFF(firmware, i)]

\* what the code does keep: a first difference below firmware.len() is
\* reported with its offset and both bytes
C36_ReportedWithinFirmware ==
    VerifiedProgram =>
      \A i \in 1..Len(firmware) :
        i = FirstMismatch(rom, firmware) =>
          /\ ispRes = "Failed to program"
          /\ ispErr = [offset |-> i - 1, actual |-> rom[i],
                       expected |-> firmware[i]]

\* the only byte that differs lies past the firmware: isp_inner panics
C36_WitnessPanic ==
    /\ ispRes = "panic"
    /\ FirstMismatch(rom, firmware) > Len(firmware)
    /\ firmware # <<>>

C36_WitnessReported ==
    /\ ispRes = "Failed to program"
    /\ ispErr.offset > 0
    /\ ispErr.expected = firmware[ispErr.offset + 1]

\* SpiRom::erase_chip's command
SpiEraseChip == 96

\* commands that change the flash or let it be changed
ChangingCommands == {SpiWren, SpiErase1K, SpiEraseChip, SpiAai}

\* entry e of the log sends the sector erase
IsSectorErase(e) == e.k = "write" /\ e.v[1] = SpiErase1K

\* the addresses of the sector erases of a log, in the order sent
ErasedAddresses(log) ==
    LET at == {n \in 1..Len(log) : IsSectorErase(log[n])}
        nth(j) == CHOOSE n \in at : Cardinality({m \in at : m < n}) = j - 1
    IN  [j \in 1..Cardinality(at) |->
            log[nth(j)].v[2] * 65536 + log[nth(j)].v[3] * 256
            + log[nth(j)].v[4]]

RECURSIVE NotBlankSectors(_, _)
\* the addresses of the 1 KiB sectors of r, from the k-th on, that hold a
\* byte other than 0xFF, ascending
NotBlankSectors(r, k) ==
    IF k * BlockBytes >= Len(r) THEN <<>>
    ELSE (IF AllFF(SubSeq(r, k * BlockBytes + 1, (k + 1) * BlockBytes))
          THEN <<>> ELSE <<SectorAddress(k)>>) \o NotBlankSectors(r, k + 1)

IsPrefix(a, b) == Len(a) <= Len(b) /\ a = SubSeq(b, 1, Len(a))

\* the step sends none of 0x06, 0xD7, 0x60, 0xAD and leaves the flash as
\* it is
ChangesNothing ==
    /\ \A n \in 1..Len(bus') :
         bus'[n].k = "write" => bus'[n].v[1] \notin ChangingCommands
    /\ spiFlash' = spiFlash

C37_WitnessErase ==
    /\ ipc = "erased"
    /\ ErasedAddresses(bus) = <<SectorAddress(2 * RegionBlocks - 1)>>
    /\ AllFF(spiFlash)
    /\ ~AllFF(romCall.before)
    /\ firmware # <<>>

\* the EC acknowledged the scratch-ROM entry: 0xEC on the first channel,
\* answered by 0x76
EnteredScratch ==
    /\ Len(pmc) >= 2
    /\ pmc[1] = [chan |-> Pmc1, k |-> "command", v |-> ScratchRom]
    /\ pmc[2] = [chan |-> Pmc1, k |-> "read", v |-> ScratchAck]

\* places of the log of PMC commands where 0xEC went to the second channel
ExitsSent ==
    {n \in 1..Len(pmc) :
       pmc[n] = [chan |-> Pmc3, k |-> "command", v |-> ScratchRom]}

\* isp is over: it returned, or a panic unwound through it
IspOver == ipc \in {"returned", "aborted"}

\* the step drives the port of isp_inner (on the internal path, the second
\* channel)
DrivesPort == romCall' # romCall

\* C38: on the internal path no flash command goes to the second channel
\* unless the EC acknowledged the entry command 0xEC on the first channel
\* with 0x76; once scratch ROM is entered, the exit command 0xEC is sent
\* on the second channel after isp_inner finishes, on every outcome of
\* isp_inner (success or any failure), and no flash command follows it
C38_ScratchRomBracket ==
    [][port.internal =>
         /\ DrivesPort => EnteredScratch /\ ExitsSent = {}
         /\ (EnteredScratch /\ IspOver') => ExitsSent' = {Len(pmc')}
         /\ ExitsSent' # ExitsSent => ipc = "done"]_vars

\* what the code does keep: the port is driven only between an
\* acknowledged entry and the exit, and the exit follows every return of
\* isp_inner
C38_BracketUnlessPanic ==
    [][port.internal =>
         /\ DrivesPort => EnteredScratch /\ ExitsSent = {}
         /\ (EnteredScratch /\ ipc' = "returned") => ExitsSent' = {Len(pmc')}
         /\ ExitsSent' # ExitsSent => ipc = "done"]_vars

\* isp_inner panicked in scratch ROM and isp ended with no exit command
C38_WitnessNoExit ==
    /\ port.internal
    /\ EnteredScratch
    /\ ipc = "aborted"
    /\ ispRes = "panic"
    /\ ExitsSent = {}

\* the exit was sent after a failed erase; the entry was refused and the
\* port never driven
C38_WitnessExit ==
    /\ port.internal
    /\ ipc = "returned"
    /\ ispRes = "Failed to erase"
    /\ ExitsSent = {3}

C38_WitnessRefused ==
    /\ port.internal
    /\ ipc = "aborted"
    /\ ~EnteredScratch
    /\ bus = <<>>
    /\ romCall.k = 0

=============================================================================
